---- MODULE Spec2Model ----
(***************************************************************************)
(* The todo backend: the relational store behind the Sequelize models      *)
(* (tasks, subtasks, notifications, users, categories, tags), the service   *)
(* handlers that read and write it, the passport callbacks, and the Express *)
(* routers and controllers in front of the services.                       *)
(* Every handler is an async function; each                                *)
(* `await` on the store is one step of the handler, and the operations a   *)
(* handler starts inside Promise.all complete in any order.                *)
(***************************************************************************)
EXTENDS Integers, FiniteSets, Sequences, TLC

\* ------------------------------------------------------------------ bounds
\* Handler invocations plus subtask entries (the members of subTasksData and
\* updatedSubTasksData) in one run.
MaxWork == 4

\* --------------------------------------------------------------- constants
\* A NULL foreign key / no identifier.
NoID == 0
\* A field the caller did not supply (undefined in the JS object).
Absent == "absent"

Procs == {1}

Titles == {"a", "b"}
TaskStatus == {"Not Started", "In Progress", "Completed"}
SubTaskStatus == {"Pending", "In Progress", "Completed"}
NotificationType == {"Invite", "Announcement", "Reminder"}
ReadStatus == {"Unread", "Read"}
UserIDs == {"u1"}
Contents == {"m1"}

TaskStatusDefault == "Not Started"
SubTaskStatusDefault == "Pending"
NotificationTypeDefault == "Reminder"

\* ------------------------------------------------------------------- state
VARIABLES
    tasks,          \* Tasks table: taskID -> row
    subTasks,       \* SubTasks table: subTaskID -> row
    notifs,         \* Notifications table: notificationID -> row
    nextTaskID,     \* next fresh UUID of each table
    nextSubTaskID,
    nextNotifID,
    work,           \* handler invocations and subtask entries so far
    call,           \* per request handler: its operation, position and locals
    users,          \* Users table: userID -> row
    nextUserID,
    signup,         \* per user created by saveUser: the userData it was created
                    \* with, while no later write has changed it (history)
    categories,     \* Categories table: categoryID -> row
    tags,           \* Tags table: tagID -> row
    taskTags,       \* TaskTags join table: set of <<taskID, tagID>>
    nextCategoryID,
    nextTagID,
    exchange        \* the HTTP request being served and its response

vars ==
    <<tasks, subTasks, notifs, nextTaskID, nextSubTaskID, nextNotifID, work, call,
      users, nextUserID, signup, categories, tags, taskTags, nextCategoryID,
      nextTagID, exchange>>
\* The tables of the user accounts and of the workspace catalogue.
accounts == <<users, nextUserID, signup>>
catalogue == <<categories, tags, taskTags, nextCategoryID, nextTagID>>
store == <<tasks, subTasks, notifs>>
ids == <<nextTaskID, nextSubTaskID, nextNotifID>>

\* ----------------------------------------------------------------- helpers
Put(f, k, v) == [x \in DOMAIN f \cup {k} |-> IF x = k THEN v ELSE f[x]]
Drop(f, S) == [x \in DOMAIN f \ S |-> f[x]]
EmptyTable == [x \in {} |-> 0]

success(message) == [status |-> "success", message |-> message]
error(message) == [status |-> "error", message |-> message]
NoResult == [status |-> "none", message |-> "none"]

\* Messages of the errors the store layer (Sequelize) raises.
StoreError == "SequelizeDatabaseError"
ValidationError == "notNull Violation"
ForeignKeyError == "SequelizeForeignKeyConstraintError"

\* workspaceID and categoryID are foreign keys: NoID when not supplied.
NoTaskData ==
    [title |-> Absent, status |-> Absent, workspaceID |-> NoID, categoryID |-> NoID]
NoEntry == [subTaskID |-> NoID, taskID |-> NoID, title |-> Absent, status |-> Absent]
NoBody == [userID |-> Absent, message |-> Absent, type |-> Absent, readStatus |-> Absent]

NoDetail ==
    [task |-> {}, SubTasks |-> {}, Notifications |-> {}, Tags |-> {}, Category |-> {}]

\* A password the caller did not supply; passwords are sequences, so that a
\* bcrypt hash is the marker of the algorithm followed by what was hashed.
NoPassword == << >>
NoUserData ==
    [firstName |-> Absent, lastName |-> Absent, Email |-> Absent,
     Password |-> NoPassword]
NoCred == [email |-> Absent, password |-> NoPassword]
\* What a passport callback was called with: done(err, user, info).
NoAuth == [called |-> FALSE, err |-> "none", user |-> NoID, message |-> "none"]
NoArg == [name |-> Absent, workspaceID |-> NoID]

\* router.METHOD(path, handler): the path as its segments, the handler, the
\* service method the handler awaits, the status it sends for a success and
\* for an error result, and whether its body is inside try/catch.
Route(method, pattern, handler, service, ok, fail, guarded) ==
    [method |-> method, pattern |-> pattern, handler |-> handler,
     service |-> service, ok |-> ok, fail |-> fail, guarded |-> guarded]
\* No request in flight.
NoExchange ==
    [pc |-> "idle", method |-> "none", path |-> << >>,
     route |-> Route("none", << >>, "none", "none", 0, 0, FALSE),
     sent |-> FALSE, status |-> 0, body |-> {}]

IdleCall ==
    [op |-> "none", pc |-> "idle", id |-> NoID,
     taskData |-> NoTaskData, n |-> 0, left |-> 0, last |-> NoEntry,
     body |-> NoBody,
     found |-> FALSE, loaded |-> {}, pending |-> {}, created |-> {}, named |-> {},
     nNew |-> 0,
     newTask |-> NoID, result |-> NoResult, view |-> {}, detail |-> NoDetail,
     userData |-> NoUserData, cred |-> NoCred, auth |-> NoAuth, sid |-> NoID,
     dto |-> {}, arg |-> NoArg,
     pre |-> [tasks |-> EmptyTable, subTasks |-> EmptyTable, notifs |-> EmptyTable,
              users |-> EmptyTable]]

Idle(p) == call[p].pc = "idle"
Snapshot == [tasks |-> tasks, subTasks |-> subTasks, notifs |-> notifs, users |-> users]

\* A handler starts: the request is accepted and its locals are fresh.
Begin(op, id) == [IdleCall EXCEPT !.op = op, !.id = id, !.pre = Snapshot]
CanBegin(p, n) == Idle(p) /\ work + 1 + n <= MaxWork

\* Task.hasMany(SubTask): the rows of SubTasks whose taskID is t.
SubTasksOf(t) == {s \in DOMAIN subTasks : subTasks[s].taskID = t}
NotifsOf(t) == {n \in DOMAIN notifs : notifs[n].taskID = t}

\* ------------------------------------------------------------------- Init
\* sequelize.sync({force: false}) keeps the rows of earlier runs: the store
\* starts empty or with a task that already has two subtasks and a
\* notification attached.
SeedTask ==
    [title |-> "a", status |-> TaskStatusDefault, workspaceID |-> NoID,
     categoryID |-> NoID]
SeedSubTask == [taskID |-> 1, title |-> "a", status |-> SubTaskStatusDefault]
SeedNotif(r) ==
    [taskID |-> 1, userID |-> "u1", content |-> "m1", type |-> "Reminder",
     readStatus |-> r]

\* No user account and no category, tag or tag link stored.
NoAccounts ==
    /\ users = EmptyTable
    /\ nextUserID = 1
    /\ signup = EmptyTable
NoCatalogue ==
    /\ categories = EmptyTable
    /\ tags = EmptyTable
    /\ taskTags = {}
    /\ nextCategoryID = 1
    /\ nextTagID = 1

Init ==
    /\ call = [p \in Procs |-> IdleCall]
    /\ work = 0
    /\ exchange = NoExchange
    /\ NoAccounts
    /\ NoCatalogue
    /\ \/ /\ tasks = EmptyTable
          /\ subTasks = EmptyTable
          /\ notifs = EmptyTable
          /\ nextTaskID = 1
          /\ nextSubTaskID = 1
          /\ nextNotifID = 1
       \/ /\ tasks = (1 :> SeedTask)
          /\ subTasks = (1 :> SeedSubTask) @@ (2 :> SeedSubTask)
          /\ \E r \in ReadStatus : notifs = (1 :> SeedNotif(r))
          /\ nextTaskID = 2
          /\ nextSubTaskID = 3
          /\ nextNotifID = 2

\* ------------------------------------------------------------ TaskService
\* Variant: the association without onDelete "CASCADE" (the foreign key is
\* cleared, the notification stays).
NotifsAfterTaskDestroySetNull(t) ==
    [n \in DOMAIN notifs |->
        IF notifs[n].taskID = t THEN [notifs[n] EXCEPT !.taskID = NoID]
        ELSE notifs[n]]

\* Task.hasMany(Notification, {onDelete: "CASCADE"}): the DELETE of a task
\* removes the notifications that refer to it.
NotifsAfterTaskDestroy(t) == Drop(notifs, NotifsOf(t))

\* Task.hasMany(SubTask, {foreignKey: "taskID"}) names no onDelete: which rule
\* the SubTasks.taskID constraint carries is decided by the ORM's defaults and
\* by the table already in the database, so each of them can be in force.
SubTaskOnDelete == {"CASCADE", "SET NULL", "NO ACTION"}
SubTasksAfterTaskDestroy(t, rule) ==
    IF rule = "CASCADE" THEN Drop(subTasks, SubTasksOf(t))
    ELSE [s \in DOMAIN subTasks |->
            IF subTasks[s].taskID = t THEN [subTasks[s] EXCEPT !.taskID = NoID]
            ELSE subTasks[s]]

\* What the DELETE of task t ends with: "" when the row is removed.
TaskDestroyError(t, ok, rule) ==
    IF rule = "NO ACTION" /\ SubTasksOf(t) # {} THEN ForeignKeyError
    ELSE IF ~ok THEN StoreError
    ELSE ""

\* Variant: a task without subtasks is reported as not found.
DeleteTaskFindNeedsSubTasks(p, taskID) ==
    /\ CanBegin(p, 0)
    /\ work' = work + 1
    /\ UNCHANGED <<store, ids>>
    /\ LET c0 == Begin("deleteTask", taskID)
       IN  call' = [call EXCEPT ![p] =
            IF taskID \notin DOMAIN tasks \/ SubTasksOf(taskID) = {}
            THEN [c0 EXCEPT !.pc = "done", !.result = error("Task not found")]
            ELSE [c0 EXCEPT !.found = TRUE,
                            !.loaded = SubTasksOf(taskID),
                            !.pending = SubTasksOf(taskID),
                            !.pc = "del_subs"]]

\* deleteTask, line 526: findByPk(taskID, {include: [SubTask]}).
DeleteTaskFind(p, taskID) ==
    /\ CanBegin(p, 0)
    /\ work' = work + 1
    /\ UNCHANGED <<store, ids>>
    /\ LET c0 == Begin("deleteTask", taskID)
       IN  call' = [call EXCEPT ![p] =
            IF taskID \notin DOMAIN tasks
            THEN [c0 EXCEPT !.pc = "done", !.result = error("Task not found")]
            ELSE [c0 EXCEPT !.found = TRUE,
                            !.loaded = SubTasksOf(taskID),
                            !.pending = SubTasksOf(taskID),
                            !.pc = IF SubTasksOf(taskID) = {} THEN "del_task"
                                   ELSE "del_subs"]]

\* Variant: the rejections of the destroys are swallowed (Promise.allSettled).
DeleteAfterSubAllSettled(c, s, ok) ==
    LET left == c.pending \ {s}
    IN  [c EXCEPT !.pending = left,
                  !.pc = IF left # {} THEN "del_subs" ELSE "del_task"]

\* The position of deleteTask after one subTask.destroy() of its Promise.all
\* has settled: the first rejection rejects the Promise.all and the catch
\* returns the error; the destroys already started still run to their end.
DeleteAfterSub(c, s, ok) ==
    LET left == c.pending \ {s}
        res  == IF ~ok /\ c.result = NoResult THEN error(StoreError) ELSE c.result
    IN  [c EXCEPT !.pending = left,
                  !.result = res,
                  !.pc = IF left # {} THEN "del_subs"
                         ELSE IF res = NoResult THEN "del_task" ELSE "done"]

\* deleteTask, line 533: one subTask.destroy() of the Promise.all.
DeleteTaskSubTask(p, s, ok) ==
    /\ call[p].op = "deleteTask"
    /\ call[p].pc = "del_subs"
    /\ s \in call[p].pending
    /\ subTasks' = IF ok THEN Drop(subTasks, {s}) ELSE subTasks
    /\ call' = [call EXCEPT ![p] = DeleteAfterSub(call[p], s, ok)]
    /\ UNCHANGED <<tasks, notifs, ids, work>>

\* deleteTask, line 535: taskToDelete.destroy(), then the success result.
DeleteTaskDestroy(p, ok, rule) ==
    /\ call[p].op = "deleteTask"
    /\ call[p].pc = "del_task"
    /\ LET err == TaskDestroyError(call[p].id, ok, rule)
       IN  IF err = ""
           THEN /\ tasks' = Drop(tasks, {call[p].id})
                /\ notifs' = NotifsAfterTaskDestroy(call[p].id)
                /\ subTasks' = SubTasksAfterTaskDestroy(call[p].id, rule)
                /\ call' = [call EXCEPT ![p].pc = "done",
                                        ![p].result = success("Task")]
           ELSE /\ UNCHANGED store
                /\ call' = [call EXCEPT ![p].pc = "done",
                                        ![p].result = error(err)]
    /\ UNCHANGED <<ids, work>>

\* ---- saveTask
\* Model validation before INSERT: title is allowNull: false in both models.
Valid(data) == data.title # Absent

\* The row Task.create(taskData) inserts: absent columns take their defaults.
TaskRow(data) ==
    [title |-> data.title,
     status |-> IF data.status = Absent THEN TaskStatusDefault ELSE data.status,
     workspaceID |-> data.workspaceID,
     categoryID |-> data.categoryID]

\* Variant: the spread comes last ({taskID: t, ...subTask}), so a taskID in
\* the entry wins.
SubTaskRowSpreadLast(entry, t) ==
    [taskID |-> IF entry.taskID # NoID THEN entry.taskID ELSE t,
     title |-> entry.title,
     status |-> IF entry.status = Absent THEN SubTaskStatusDefault ELSE entry.status]

\* The row SubTask.create({...subTask, taskID: t}) inserts: the spread is
\* overridden by the taskID of the handler's task.
SubTaskRow(entry, t) ==
    [taskID |-> t,
     title |-> entry.title,
     status |-> IF entry.status = Absent THEN SubTaskStatusDefault ELSE entry.status]

\* What SubTask.create({...subTask, taskID: t}) ends with: "" when the row is
\* inserted, else the message of the error it throws.
SubTaskCreateError(entry, t, ok) ==
    IF ~Valid(entry) THEN ValidationError
    ELSE IF t \notin DOMAIN tasks THEN ForeignKeyError
    ELSE IF ~ok THEN StoreError
    ELSE ""

\* Variant: the rejections of the members are swallowed (Promise.allSettled).
AfterEntryAllSettled(c, entry, err, newIDs) ==
    LET left == c.left - 1
    IN  [c EXCEPT !.left = left,
                  !.last = entry,
                  !.created = c.created \cup newIDs,
                  !.named = c.named \cup ({entry.subTaskID} \ {NoID}),
                  !.nNew = c.nNew + (IF entry.subTaskID = NoID THEN 1 ELSE 0),
                  !.result = IF left = 0 THEN success("Task") ELSE c.result,
                  !.pc = IF left = 0 THEN "done" ELSE c.pc]

\* The handler's position after one member of the Promise.all over the
\* subtask entries has settled: entry is that member's entry, err the message
\* of the error it threw ("" for none), newIDs the row it inserted.  The first
\* rejection makes the catch return the error while the other members still
\* run to their end; when all have fulfilled the handler returns success.
AfterEntry(c, entry, err, newIDs) ==
    LET left == c.left - 1
        res  == IF err # "" /\ c.result = NoResult THEN error(err) ELSE c.result
    IN  [c EXCEPT !.left = left,
                  !.last = entry,
                  !.created = c.created \cup newIDs,
                  !.named = c.named \cup ({entry.subTaskID} \ {NoID}),
                  !.nNew = c.nNew + (IF entry.subTaskID = NoID THEN 1 ELSE 0),
                  !.result = IF left = 0 /\ res = NoResult THEN success("Task")
                             ELSE res,
                  !.pc = IF left = 0 THEN "done" ELSE c.pc]

\* saveTask, line 468: Task.create(taskData); n is subTasksData.length.
SaveTaskCreate(p, taskData, n, ok) ==
    /\ CanBegin(p, n)
    /\ work' = work + 1 + n
    /\ LET c0 == [Begin("saveTask", NoID) EXCEPT !.taskData = taskData, !.n = n]
       IN  IF Valid(taskData) /\ ok
           THEN /\ tasks' = Put(tasks, nextTaskID, TaskRow(taskData))
                /\ nextTaskID' = nextTaskID + 1
                /\ call' = [call EXCEPT ![p] =
                     IF n = 0
                     THEN [c0 EXCEPT !.newTask = nextTaskID, !.pc = "done",
                                     !.result = success("Task")]
                     ELSE [c0 EXCEPT !.newTask = nextTaskID, !.pc = "save_subs",
                                     !.left = n]]
           ELSE /\ UNCHANGED <<tasks, nextTaskID>>
                /\ call' = [call EXCEPT ![p] =
                     [c0 EXCEPT !.pc = "done",
                                !.result = error(IF Valid(taskData) THEN StoreError
                                                 ELSE ValidationError)]]
    /\ UNCHANGED <<subTasks, notifs, nextSubTaskID, nextNotifID>>

\* SubTask.create({...entry, taskID: t}) as one member of a Promise.all of the
\* handler c: the store and the handler after it has settled.
CreateSubTask(p, entry, t, ok) ==
    LET err == SubTaskCreateError(entry, t, ok)
    IN  IF err = ""
        THEN /\ subTasks' = Put(subTasks, nextSubTaskID, SubTaskRow(entry, t))
             /\ nextSubTaskID' = nextSubTaskID + 1
             /\ call' = [call EXCEPT ![p] =
                            AfterEntry(call[p], entry, "", {nextSubTaskID})]
        ELSE /\ UNCHANGED <<subTasks, nextSubTaskID>>
             /\ call' = [call EXCEPT ![p] = AfterEntry(call[p], entry, err, {})]

\* saveTask, line 471: one SubTask.create of the Promise.all.  The members
\* are independent and settle in any order, so the entry of the member that
\* settles is drawn when it settles.
SaveTaskSubTask(p, entry, ok) ==
    /\ call[p].op = "saveTask"
    /\ call[p].pc = "save_subs"
    /\ call[p].left > 0
    /\ CreateSubTask(p, entry, call[p].newTask, ok)
    /\ UNCHANGED <<tasks, notifs, nextTaskID, nextNotifID, work>>

\* ---- updateTask
\* updateTask, line 491: findByPk(taskID, {include: [SubTask]}).
UpdateTaskFind(p, taskID, updatedTaskData, n) ==
    /\ CanBegin(p, n)
    /\ work' = work + 1 + n
    /\ UNCHANGED <<store, ids>>
    /\ LET c0 == [Begin("updateTask", taskID) EXCEPT !.taskData = updatedTaskData,
                                                     !.n = n]
       IN  call' = [call EXCEPT ![p] =
            IF taskID \notin DOMAIN tasks
            THEN [c0 EXCEPT !.pc = "done", !.result = error("Task not found")]
            ELSE [c0 EXCEPT !.found = TRUE, !.loaded = SubTasksOf(taskID),
                            !.pc = "upd_task"]]

\* instance.update(data) on a row loaded as `row`: the columns the data
\* supplies with a value other than the loaded one are written.
Changed(row, data) ==
    {f \in {"title", "status"} : data[f] # Absent /\ data[f] # row[f]}
    \cup {f \in {"workspaceID", "categoryID"} : data[f] # NoID /\ data[f] # row[f]}
Merged(row, data) ==
    [title |-> IF data.title # Absent THEN data.title ELSE row.title,
     status |-> IF data.status # Absent THEN data.status ELSE row.status,
     workspaceID |-> IF data.workspaceID # NoID THEN data.workspaceID
                     ELSE row.workspaceID,
     categoryID |-> IF data.categoryID # NoID THEN data.categoryID
                    ELSE row.categoryID]

\* updateTask, line 498: taskToUpdate.update(updatedTaskData).  An UPDATE of
\* a row that is gone changes nothing and is no error; with no changed column
\* no statement is sent.
UpdateTaskRow(p, ok) ==
    /\ call[p].op = "updateTask"
    /\ call[p].pc = "upd_task"
    /\ LET c   == call[p]
           row == c.pre.tasks[c.id]
       IN  /\ Changed(row, c.taskData) = {} => ok
           /\ IF ok
              THEN /\ tasks' = IF c.id \in DOMAIN tasks /\ Changed(row, c.taskData) # {}
                               THEN Put(tasks, c.id, Merged(tasks[c.id], c.taskData))
                               ELSE tasks
                   /\ call' = [call EXCEPT ![p] =
                        IF c.n = 0
                        THEN [c EXCEPT !.pc = "done", !.result = success("Task")]
                        ELSE [c EXCEPT !.pc = "upd_subs", !.left = c.n]]
              ELSE /\ UNCHANGED tasks
                   /\ call' = [call EXCEPT ![p].pc = "done",
                                           ![p].result = error(StoreError)]
    /\ UNCHANGED <<subTasks, notifs, ids, work>>

\* Variant: the UPDATE leaves the status column out.
SubTaskUpdatedNoStatus(row, entry) ==
    [taskID |-> IF entry.taskID # NoID THEN entry.taskID ELSE row.taskID,
     title |-> IF entry.title # Absent THEN entry.title ELSE row.title,
     status |-> row.status]

\* SubTask.update(entry, {where: {subTaskID: entry.subTaskID}}): every column
\* the entry supplies is written to the row with that identifier.
SubTaskUpdated(row, entry) ==
    [taskID |-> IF entry.taskID # NoID THEN entry.taskID ELSE row.taskID,
     title |-> IF entry.title # Absent THEN entry.title ELSE row.title,
     status |-> IF entry.status # Absent THEN entry.status ELSE row.status]

SubTaskUpdateError(entry, ok) ==
    IF entry.taskID # NoID /\ entry.taskID \notin DOMAIN tasks
          /\ entry.subTaskID \in DOMAIN subTasks
    THEN ForeignKeyError
    ELSE IF ~ok THEN StoreError
    ELSE ""

\* updateTask, lines 501-509: one member of the Promise.all, an UPDATE when
\* the entry has a subTaskID, else a create under the handler's task.
UpdateTaskSubTask(p, entry, ok) ==
    /\ call[p].op = "updateTask"
    /\ call[p].pc = "upd_subs"
    /\ call[p].left > 0
    /\ IF entry.subTaskID # NoID
       THEN LET err == SubTaskUpdateError(entry, ok)
            IN  /\ subTasks' =
                     IF err = "" /\ entry.subTaskID \in DOMAIN subTasks
                     THEN Put(subTasks, entry.subTaskID,
                              SubTaskUpdated(subTasks[entry.subTaskID], entry))
                     ELSE subTasks
                /\ call' = [call EXCEPT ![p] = AfterEntry(call[p], entry, err, {})]
                /\ UNCHANGED nextSubTaskID
       ELSE CreateSubTask(p, entry, call[p].id, ok)
    /\ UNCHANGED <<tasks, notifs, nextTaskID, nextNotifID, work>>

\* ---- findTaskByID
\* The columns of the eager-loaded SubTasks (attributes, line 265).
SubTaskView(s) ==
    [subTaskID |-> s, title |-> subTasks[s].title, status |-> subTasks[s].status]

\* Task.belongsToMany(Tag, {through: TaskTag}) and Task.belongsTo(Category),
\* with the attributes the includes select.
TagsOf(t) == {g \in DOMAIN tags : <<t, g>> \in taskTags}
TagView(g) == [tagID |-> g, name |-> tags[g].name]
CategoryOf(t) == {tasks[t].categoryID} \cap DOMAIN categories
CategoryView(k) == [categoryID |-> k, name |-> categories[k].name]

\* Variant: the includes as inner joins (required: true), so that a task
\* without subtasks, notifications or tags is not found.
FindTaskByIDRequired(p, taskID) ==
    /\ CanBegin(p, 0)
    /\ work' = work + 1
    /\ UNCHANGED <<store, ids>>
    /\ LET c0 == Begin("findTaskByID", taskID)
       IN  call' = [call EXCEPT ![p] =
            IF \/ taskID \notin DOMAIN tasks
               \/ SubTasksOf(taskID) = {} \/ NotifsOf(taskID) = {} \/ TagsOf(taskID) = {}
            THEN [c0 EXCEPT !.pc = "done", !.result = error("Task not found")]
            ELSE [c0 EXCEPT !.pc = "done", !.found = TRUE,
                            !.result = success("Task"),
                            !.detail = [task |-> {tasks[taskID]},
                                        SubTasks |-> {SubTaskView(s) : s \in SubTasksOf(taskID)},
                                        Notifications |-> NotifsOf(taskID),
                                        Tags |-> {TagView(g) : g \in TagsOf(taskID)},
                                        Category |-> {CategoryView(k) :
                                                        k \in CategoryOf(taskID)}]]]

\* findTaskByID, lines 261-290: one query, LEFT OUTER JOINs on the includes.
FindTaskByID(p, taskID) ==
    /\ CanBegin(p, 0)
    /\ work' = work + 1
    /\ UNCHANGED <<store, ids>>
    /\ LET c0 == Begin("findTaskByID", taskID)
       IN  call' = [call EXCEPT ![p] =
            IF taskID \notin DOMAIN tasks
            THEN [c0 EXCEPT !.pc = "done", !.result = error("Task not found")]
            ELSE [c0 EXCEPT !.pc = "done", !.found = TRUE,
                            !.result = success("Task"),
                            !.detail = [task |-> {tasks[taskID]},
                                        SubTasks |-> {SubTaskView(s) : s \in SubTasksOf(taskID)},
                                        Notifications |-> NotifsOf(taskID),
                                        Tags |-> {TagView(g) : g \in TagsOf(taskID)},
                                        Category |-> {CategoryView(k) :
                                                        k \in CategoryOf(taskID)}]]]

\* ---------------------------------------------------- NotificationService
\* Variant: the whole request body reaches Notification.create.
NotificationRowFromBody(body) ==
    [taskID |-> NoID, userID |-> body.userID, content |-> body.message,
     type |-> IF body.type # Absent THEN body.type ELSE NotificationTypeDefault,
     readStatus |-> IF body.readStatus # Absent THEN body.readStatus ELSE "Unread"]

\* NotificationController.createNotification, line 20: only userID and
\* message are taken from the request body.
NotificationRow(body) ==
    [taskID |-> NoID, userID |-> body.userID, content |-> body.message,
     type |-> NotificationTypeDefault, readStatus |-> "Unread"]

\* createNotification (controller line 21, service lines 25-30): content is
\* allowNull: false; type is left to the parameter's default.
CreateNotification(p, body) ==
    /\ CanBegin(p, 0)
    /\ work' = work + 1
    /\ LET c0 == [Begin("createNotification", NoID) EXCEPT !.body = body]
       IN  IF body.message # Absent
           THEN /\ notifs' = Put(notifs, nextNotifID, NotificationRow(body))
                /\ nextNotifID' = nextNotifID + 1
                /\ call' = [call EXCEPT ![p] =
                     [c0 EXCEPT !.pc = "done", !.id = nextNotifID,
                                !.result = success("Notification")]]
           ELSE /\ UNCHANGED <<notifs, nextNotifID>>
                /\ call' = [call EXCEPT ![p] =
                     [c0 EXCEPT !.pc = "done", !.result = error(ValidationError)]]
    /\ UNCHANGED <<tasks, subTasks, nextTaskID, nextSubTaskID>>

\* getNotificationsForUser, lines 46-49.
GetNotificationsForUser(p, userID) ==
    /\ CanBegin(p, 0)
    /\ work' = work + 1
    /\ UNCHANGED <<store, ids>>
    /\ call' = [call EXCEPT ![p] =
         [Begin("getNotificationsForUser", NoID) EXCEPT
            !.pc = "done", !.result = success("Notifications"),
            !.view = {n \in DOMAIN notifs : notifs[n].userID = userID}]]

\* Variant: a notification that is already Read is refused.
MarkAsReadFindStrict(p, notificationID) ==
    /\ CanBegin(p, 0)
    /\ work' = work + 1
    /\ UNCHANGED <<store, ids>>
    /\ LET c0 == Begin("markAsRead", notificationID)
       IN  call' = [call EXCEPT ![p] =
            IF notificationID \notin DOMAIN notifs
            THEN [c0 EXCEPT !.pc = "done", !.result = error("Notification not found")]
            ELSE IF notifs[notificationID].readStatus = "Read"
            THEN [c0 EXCEPT !.found = TRUE, !.pc = "done",
                            !.result = error("Notification already read")]
            ELSE [c0 EXCEPT !.found = TRUE, !.pc = "mark_save"]]

\* markAsRead, line 64: Notification.findByPk(notificationID).
MarkAsReadFind(p, notificationID) ==
    /\ CanBegin(p, 0)
    /\ work' = work + 1
    /\ UNCHANGED <<store, ids>>
    /\ LET c0 == Begin("markAsRead", notificationID)
       IN  call' = [call EXCEPT ![p] =
            IF notificationID \notin DOMAIN notifs
            THEN [c0 EXCEPT !.pc = "done", !.result = error("Notification not found")]
            ELSE [c0 EXCEPT !.found = TRUE, !.pc = "mark_save"]]

\* instance.save() after readStatus = "Read" on the instance loaded as `row`:
\* an UPDATE of the changed column, and no statement when nothing changed.
ReadStatusChanged(row) == row.readStatus # "Read"

\* Variant: the handler toggles readStatus.
MarkAsReadToggle(p, ok) ==
    /\ call[p].op = "markAsRead"
    /\ call[p].pc = "mark_save"
    /\ LET c == call[p]
       IN  IF ok
           THEN /\ notifs' = IF c.id \in DOMAIN notifs
                             THEN [notifs EXCEPT ![c.id].readStatus =
                                     IF c.pre.notifs[c.id].readStatus = "Read"
                                     THEN "Unread" ELSE "Read"]
                             ELSE notifs
                /\ call' = [call EXCEPT ![p].pc = "done",
                                        ![p].result = success("Notification")]
           ELSE /\ UNCHANGED notifs
                /\ call' = [call EXCEPT ![p].pc = "done",
                                        ![p].result = error(StoreError)]
    /\ UNCHANGED <<tasks, subTasks, ids, work>>

\* markAsRead, lines 68-70.
MarkAsReadSave(p, ok) ==
    /\ call[p].op = "markAsRead"
    /\ call[p].pc = "mark_save"
    /\ LET c   == call[p]
           row == c.pre.notifs[c.id]
       IN  /\ ~ReadStatusChanged(row) => ok
           /\ IF ok
              THEN /\ notifs' = IF c.id \in DOMAIN notifs /\ ReadStatusChanged(row)
                                THEN [notifs EXCEPT ![c.id].readStatus = "Read"]
                                ELSE notifs
                   /\ call' = [call EXCEPT ![p].pc = "done",
                                           ![p].result = success("Notification")]
              ELSE /\ UNCHANGED notifs
                   /\ call' = [call EXCEPT ![p].pc = "done",
                                           ![p].result = error(StoreError)]
    /\ UNCHANGED <<tasks, subTasks, ids, work>>

\* deleteNotification, line 85: Notification.findByPk(notificationID).
DeleteNotificationFind(p, notificationID) ==
    /\ CanBegin(p, 0)
    /\ work' = work + 1
    /\ UNCHANGED <<store, ids>>
    /\ LET c0 == Begin("deleteNotification", notificationID)
       IN  call' = [call EXCEPT ![p] =
            IF notificationID \notin DOMAIN notifs
            THEN [c0 EXCEPT !.pc = "done", !.result = error("Notification not found")]
            ELSE [c0 EXCEPT !.found = TRUE, !.pc = "del_notif"]]

\* deleteNotification, lines 89-90.
DeleteNotificationDestroy(p, ok) ==
    /\ call[p].op = "deleteNotification"
    /\ call[p].pc = "del_notif"
    /\ notifs' = IF ok THEN Drop(notifs, {call[p].id}) ELSE notifs
    /\ call' = [call EXCEPT ![p].pc = "done",
                            ![p].result =
                                IF ok THEN success("Notification deleted successfully")
                                ELSE error(StoreError)]
    /\ UNCHANGED <<tasks, subTasks, ids, work>>

\* The controller sends the result (response.status(..).json(result)) and the
\* handler is over.
Respond(p) ==
    /\ call[p].pc = "done"
    /\ call' = [call EXCEPT ![p] = IdleCall]
    /\ UNCHANGED <<store, ids, work, accounts, catalogue>>

\* ------------------------------------------------------------- UserService
\* The tables and counters the user and passport handlers leave alone.
others == <<store, ids, catalogue>>

\* Sequelize's messages for a violated unique index and a failed validator.
UniqueError == "Validation error"
InvalidError == "Validation error: Validation failed"

\* Emails the callers use; isEmail accepts the first two.
Emails == {"a@x.io", "b@x.io", "nomail"}
isEmail(e) == e \in {"a@x.io", "b@x.io"}

\* bcrypt: the hash of a value is the algorithm's marker followed by the
\* value; bcrypt.compare(data, encrypted) holds when encrypted is a hash of
\* data (salts are left out).
BcryptMarker == "$2b$"
Hash(v) == <<BcryptMarker>> \o v
Compare(data, encrypted) == encrypted = Hash(data)
\* Number of characters of a password value: a bcrypt hash has 60.
PasswordLength(v) ==
    IF v = NoPassword THEN 0
    ELSE IF v[1] = BcryptMarker THEN 60
    ELSE IF v = <<"short">> THEN 5
    ELSE 9
\* validate: {len: [8, 100]} on Password.
LenOK(v) == PasswordLength(v) >= 8 /\ PasswordLength(v) <= 100

\* obj.name in JavaScript: undefined when the object has no such property.
Prop(obj, name) == IF name \in DOMAIN obj THEN obj[name] ELSE NoID

\* The model instance of row `row` of Users: one property per attribute of
\* UserModel, under the attribute's own name.
Instance(u, row) ==
    [userID |-> u, firstName |-> row.firstName, lastName |-> row.lastName,
     Email |-> row.Email, Password |-> row.Password]

\* UserView.toDTO and UserEditView.toDTO.
UserView(user) ==
    [userId |-> Prop(user, "UserID"),
     fullName |-> <<Prop(user, "firstName"), Prop(user, "lastName")>>,
     email |-> Prop(user, "Email")]
UserEditView(user) ==
    [firstName |-> Prop(user, "firstName"), lastName |-> Prop(user, "lastName"),
     email |-> Prop(user, "Email"), password |-> Prop(user, "Password")]

\* The users whose Email is e.
UsersWithEmail(e) == {u \in DOMAIN users : users[u].Email = e}

\* The row User.create(userData) inserts: every column as supplied.
UserRow(data) ==
    [firstName |-> data.firstName, lastName |-> data.lastName,
     Email |-> data.Email, Password |-> data.Password]

\* Variant: Email without the unique index.
UserCreateErrorNoIndex(data, ok) ==
    IF \/ data.firstName = Absent \/ data.lastName = Absent
       \/ data.Email = Absent \/ data.Password = NoPassword
    THEN ValidationError
    ELSE IF ~isEmail(data.Email) \/ ~LenOK(data.Password) THEN InvalidError
    ELSE IF ~ok THEN StoreError
    ELSE "none"

\* Why User.create(data) is rejected, or "none": allowNull and the
\* validators run first, then the INSERT meets the unique index on Email.
UserCreateError(data, ok) ==
    IF \/ data.firstName = Absent \/ data.lastName = Absent
       \/ data.Email = Absent \/ data.Password = NoPassword
    THEN ValidationError
    ELSE IF ~isEmail(data.Email) \/ ~LenOK(data.Password) THEN InvalidError
    ELSE IF UsersWithEmail(data.Email) # {} THEN UniqueError
    ELSE IF ~ok THEN StoreError
    ELSE "none"

\* saveUser, lines 90-99.
SaveUser(p, userData, ok) ==
    /\ CanBegin(p, 0)
    /\ work' = work + 1
    /\ LET c0  == [Begin("saveUser", NoID) EXCEPT !.userData = userData]
           err == UserCreateError(userData, ok)
       IN  IF err = "none"
           THEN /\ users' = Put(users, nextUserID, UserRow(userData))
                /\ nextUserID' = nextUserID + 1
                /\ signup' = Put(signup, nextUserID, userData)
                /\ call' = [call EXCEPT ![p] =
                     [c0 EXCEPT !.id = nextUserID, !.found = TRUE, !.pc = "done",
                                !.result = success("User"),
                                !.dto = {UserView(Instance(nextUserID,
                                                           UserRow(userData)))}]]
           ELSE /\ UNCHANGED accounts
                /\ call' = [call EXCEPT ![p] =
                     [c0 EXCEPT !.pc = "done", !.result = error(err)]]
    /\ UNCHANGED others

\* findUserByID, lines 20-44: one query with the user's notifications.
FindUserByID(p, userID, ok) ==
    /\ CanBegin(p, 0)
    /\ work' = work + 1
    /\ UNCHANGED <<accounts, others>>
    /\ LET c0 == Begin("findUserByID", userID)
       IN  call' = [call EXCEPT ![p] =
            IF ~ok
            THEN [c0 EXCEPT !.pc = "done", !.result = error(StoreError)]
            ELSE IF userID \notin DOMAIN users
            THEN [c0 EXCEPT !.pc = "done", !.result = error("User not found")]
            ELSE [c0 EXCEPT !.pc = "done", !.found = TRUE,
                            !.result = success("User"),
                            !.dto = {UserView(Instance(userID, users[userID]))}]]

\* updateUser, line 109: User.findByPk(userID).
UpdateUserFind(p, userID, updatedUserData) ==
    /\ CanBegin(p, 0)
    /\ work' = work + 1
    /\ UNCHANGED <<accounts, others>>
    /\ LET c0 == [Begin("updateUser", userID) EXCEPT !.userData = updatedUserData]
       IN  call' = [call EXCEPT ![p] =
            IF userID \notin DOMAIN users
            THEN [c0 EXCEPT !.pc = "done", !.result = error("User not found")]
            ELSE [c0 EXCEPT !.found = TRUE, !.pc = "upd_user"]]

\* instance.update(data) on a Users row: the supplied columns that differ.
UserChanged(row, data) ==
    {f \in {"firstName", "lastName", "Email"} : data[f] # Absent /\ data[f] # row[f]}
    \cup (IF data.Password # NoPassword /\ data.Password # row.Password
          THEN {"Password"} ELSE {})
UserMerged(row, data) ==
    [firstName |-> IF data.firstName # Absent THEN data.firstName ELSE row.firstName,
     lastName |-> IF data.lastName # Absent THEN data.lastName ELSE row.lastName,
     Email |-> IF data.Email # Absent THEN data.Email ELSE row.Email,
     Password |-> IF data.Password # NoPassword THEN data.Password ELSE row.Password]

\* Why userToUpdate.update(data) is rejected, or "none".
UserUpdateError(u, row, data, ok) ==
    IF \/ "Email" \in UserChanged(row, data) /\ ~isEmail(data.Email)
       \/ "Password" \in UserChanged(row, data) /\ ~LenOK(data.Password)
    THEN InvalidError
    ELSE IF "Email" \in UserChanged(row, data) /\ UsersWithEmail(data.Email) \ {u} # {}
    THEN UniqueError
    ELSE IF ~ok THEN StoreError
    ELSE "none"

\* updateUser, lines 113-115.
UpdateUserRow(p, ok) ==
    /\ call[p].op = "updateUser"
    /\ call[p].pc = "upd_user"
    /\ LET c   == call[p]
           row == c.pre.users[c.id]
           chg == UserChanged(row, c.userData)
           err == UserUpdateError(c.id, row, c.userData, ok)
       IN  /\ chg = {} => ok
           /\ IF err = "none"
              THEN /\ users' = IF c.id \in DOMAIN users /\ chg # {}
                               THEN Put(users, c.id, UserMerged(users[c.id], c.userData))
                               ELSE users
                   /\ signup' = IF chg # {} THEN Drop(signup, {c.id}) ELSE signup
                   /\ call' = [call EXCEPT ![p].pc = "done",
                                 ![p].result = success("User"),
                                 ![p].dto = {UserEditView(Instance(c.id,
                                                UserMerged(row, c.userData)))}]
              ELSE /\ UNCHANGED <<users, signup>>
                   /\ call' = [call EXCEPT ![p].pc = "done",
                                           ![p].result = error(err)]
    /\ UNCHANGED <<nextUserID, others, work>>

\* deleteUser, line 129: User.findByPk(userID).
DeleteUserFind(p, userID) ==
    /\ CanBegin(p, 0)
    /\ work' = work + 1
    /\ UNCHANGED <<accounts, others>>
    /\ LET c0 == Begin("deleteUser", userID)
       IN  call' = [call EXCEPT ![p] =
            IF userID \notin DOMAIN users
            THEN [c0 EXCEPT !.pc = "done", !.result = error("User not found")]
            ELSE [c0 EXCEPT !.found = TRUE, !.pc = "del_user"]]

\* deleteUser, lines 133-135.
DeleteUserDestroy(p, ok) ==
    /\ call[p].op = "deleteUser"
    /\ call[p].pc = "del_user"
    /\ LET c == call[p]
       IN  IF ok
           THEN /\ users' = Drop(users, {c.id})
                /\ signup' = Drop(signup, {c.id})
                /\ call' = [call EXCEPT ![p].pc = "done",
                              ![p].result = success("User"),
                              ![p].dto = {UserView(Instance(c.id, c.pre.users[c.id]))}]
           ELSE /\ UNCHANGED <<users, signup>>
                /\ call' = [call EXCEPT ![p].pc = "done",
                                        ![p].result = error(StoreError)]
    /\ UNCHANGED <<nextUserID, others, work>>

\* ----------------------------------------------------------------- passport
\* done(err), done(null, false, {message}) and done(null, user).
doneError(err) == [called |-> TRUE, err |-> err, user |-> NoID, message |-> "none"]
doneFail(message) == [called |-> TRUE, err |-> "none", user |-> NoID, message |-> message]
doneWith(user) == [called |-> TRUE, err |-> "none", user |-> user, message |-> "none"]

\* Variant: an unknown email is reported as a wrong password.
LoginFindOneMessage(p, email, password, ok) ==
    /\ CanBegin(p, 0)
    /\ work' = work + 1
    /\ UNCHANGED <<accounts, others>>
    /\ LET c0 == [Begin("login", NoID) EXCEPT
                    !.cred = [email |-> email, password |-> password]]
       IN  call' = [call EXCEPT ![p] =
            IF ~ok
            THEN [c0 EXCEPT !.pc = "done", !.auth = doneError(StoreError)]
            ELSE IF UsersWithEmail(email) = {}
            THEN [c0 EXCEPT !.pc = "done", !.auth = doneFail("Incorrect password.")]
            ELSE [c0 EXCEPT !.found = TRUE,
                            !.id = CHOOSE u \in UsersWithEmail(email) : TRUE,
                            !.pc = "login_compare"]]

\* The verify callback of the LocalStrategy, line 24:
\* User.findOne({where: {Email: email}}).
LoginFind(p, email, password, ok) ==
    /\ CanBegin(p, 0)
    /\ work' = work + 1
    /\ UNCHANGED <<accounts, others>>
    /\ LET c0 == [Begin("login", NoID) EXCEPT
                    !.cred = [email |-> email, password |-> password]]
       IN  call' = [call EXCEPT ![p] =
            IF ~ok
            THEN [c0 EXCEPT !.pc = "done", !.auth = doneError(StoreError)]
            ELSE IF UsersWithEmail(email) = {}
            THEN [c0 EXCEPT !.pc = "done", !.auth = doneFail("Incorrect email.")]
            ELSE [c0 EXCEPT !.found = TRUE,
                            !.id = CHOOSE u \in UsersWithEmail(email) : TRUE,
                            !.pc = "login_compare"]]

\* The verify callback, lines 30-36: bcrypt.compare(password, user.Password).
LoginCompare(p) ==
    /\ call[p].op = "login"
    /\ call[p].pc = "login_compare"
    /\ LET c == call[p]
       IN  call' = [call EXCEPT ![p] =
            IF Compare(c.cred.password, c.pre.users[c.id].Password)
            THEN [c EXCEPT !.auth = doneWith(c.id), !.pc = "login_serialize"]
            ELSE [c EXCEPT !.auth = doneFail("Incorrect password."), !.pc = "done"]]
    /\ UNCHANGED <<accounts, others, work>>

\* passport.serializeUser, lines 51-53, on the user the verify callback
\* returned: done(null, user.UserID).
SerializeUser(p) ==
    /\ call[p].op = "login"
    /\ call[p].pc = "login_serialize"
    /\ LET c == call[p]
       IN  call' = [call EXCEPT ![p].sid =
                        Prop(Instance(c.id, c.pre.users[c.id]), "UserID"),
                                ![p].pc = "done"]
    /\ UNCHANGED <<accounts, others, work>>

\* passport.deserializeUser, lines 62-70, on the identifier the session store
\* holds: done(null, user), where user is null when no row has the key.
DeserializeUser(p, id, ok) ==
    /\ CanBegin(p, 0)
    /\ work' = work + 1
    /\ UNCHANGED <<accounts, others>>
    /\ LET c0 == Begin("deserializeUser", id)
       IN  call' = [call EXCEPT ![p] =
            IF ~ok
            THEN [c0 EXCEPT !.pc = "done", !.auth = doneError(StoreError)]
            ELSE IF id \in DOMAIN users
            THEN [c0 EXCEPT !.pc = "done", !.found = TRUE, !.auth = doneWith(id),
                            !.dto = {Instance(id, users[id])}]
            ELSE [c0 EXCEPT !.pc = "done", !.auth = doneWith(NoID)]]

\* ------------------------------------------------------------------ inputs
\* Task data a caller sends: a full one, one relying on a default, and one
\* without the mandatory title.
TaskDataIn ==
    {[NoTaskData EXCEPT !.title = "a"],
     [NoTaskData EXCEPT !.title = "b", !.status = "Completed"],
     [NoTaskData EXCEPT !.status = "In Progress"]}

\* Task data of an update: partial.
TaskDataUpd ==
    {NoTaskData,
     [NoTaskData EXCEPT !.status = "Completed"],
     [NoTaskData EXCEPT !.title = "b"]}

\* Identifiers a caller can name: those handed out so far, and for tasks one
\* that no row has.
KnownTasks == 1..(nextTaskID - 1)

\* Subtask entries without a subTaskID: relying on the default status, with
\* every column and a taskID of the caller's choice, and without the title.
NewEntries ==
    {[NoEntry EXCEPT !.title = "a"]}
    \cup {[NoEntry EXCEPT !.title = "b", !.status = "Completed", !.taskID = t] :
            t \in KnownTasks}
    \cup {[NoEntry EXCEPT !.status = "In Progress"]}

\* Subtask entries with a subTaskID, which names a subtask the caller could
\* read before the call: a new status, or a new title with or without a taskID.
UpdateEntries(p) ==
    {[NoEntry EXCEPT !.subTaskID = s, !.status = "Completed"] :
            s \in DOMAIN call[p].pre.subTasks}
    \cup {[NoEntry EXCEPT !.subTaskID = s, !.title = "b", !.taskID = t] :
            s \in DOMAIN call[p].pre.subTasks, t \in KnownTasks \cup {NoID}}

\* Bodies of POST /notification: the two fields the controller reads, with
\* and without further fields, and one without the message.
NotificationBodies ==
    {[NoBody EXCEPT !.userID = "u1", !.message = "m1"],
     [NoBody EXCEPT !.userID = "u1", !.message = "m1", !.type = "Invite",
                    !.readStatus = "Read"],
     [NoBody EXCEPT !.userID = "u1"]}

Step(p) ==
    \/ \E t \in 1..nextTaskID : DeleteTaskFind(p, t)
    \/ \E s \in call[p].pending, ok \in BOOLEAN : DeleteTaskSubTask(p, s, ok)
    \/ \E ok \in BOOLEAN, rule \in SubTaskOnDelete : DeleteTaskDestroy(p, ok, rule)
    \/ \E d \in TaskDataIn, n \in 0..MaxWork, ok \in BOOLEAN :
            SaveTaskCreate(p, d, n, ok)
    \/ \E e \in NewEntries, ok \in BOOLEAN : SaveTaskSubTask(p, e, ok)
    \/ \E t \in 1..nextTaskID, d \in TaskDataUpd, n \in 0..MaxWork :
            UpdateTaskFind(p, t, d, n)
    \/ \E ok \in BOOLEAN : UpdateTaskRow(p, ok)
    \/ \E e \in NewEntries \cup UpdateEntries(p), ok \in BOOLEAN :
            UpdateTaskSubTask(p, e, ok)
    \/ \E t \in 1..nextTaskID : FindTaskByID(p, t)
    \/ \E b \in NotificationBodies : CreateNotification(p, b)
    \/ \E u \in UserIDs : GetNotificationsForUser(p, u)
    \/ \E n \in 1..nextNotifID : MarkAsReadFind(p, n)
    \/ \E ok \in BOOLEAN : MarkAsReadSave(p, ok)
    \/ \E n \in 1..nextNotifID : DeleteNotificationFind(p, n)
    \/ \E ok \in BOOLEAN : DeleteNotificationDestroy(p, ok)
    \/ Respond(p)

Next == (\E p \in Procs : Step(p)) /\ UNCHANGED <<accounts, catalogue, exchange>>

Spec == Init /\ [][Next]_vars

\* ------------------------------------------------- user accounts and login
\* Users rows kept from earlier runs: none, or one account whose Password is
\* a bcrypt hash.
SeedUser ==
    [firstName |-> "Ann", lastName |-> "Lee", Email |-> "a@x.io",
     Password |-> Hash(<<"password1">>)]

InitUser ==
    /\ call = [p \in Procs |-> IdleCall]
    /\ work = 0
    /\ exchange = NoExchange
    /\ tasks = EmptyTable
    /\ subTasks = EmptyTable
    /\ notifs = EmptyTable
    /\ nextTaskID = 1
    /\ nextSubTaskID = 1
    /\ nextNotifID = 1
    /\ NoCatalogue
    /\ signup = EmptyTable
    /\ \/ users = EmptyTable /\ nextUserID = 1
       \/ users = (1 :> SeedUser) /\ nextUserID = 2

\* userData of POST /users: two full ones with a plaintext password, one
\* whose password is already a bcrypt hash, and three that a validator or
\* allowNull refuses.
Passwords == {<<"password1">>, <<"password2">>, Hash(<<"password1">>)}
UserDataIn ==
    {[firstName |-> "Ann", lastName |-> "Lee", Email |-> "a@x.io",
      Password |-> <<"password1">>],
     [firstName |-> "Bob", lastName |-> "Lee", Email |-> "b@x.io",
      Password |-> <<"password2">>],
     [firstName |-> "Bob", lastName |-> "Lee", Email |-> "b@x.io",
      Password |-> Hash(<<"password1">>)],
     [firstName |-> "Ann", lastName |-> "Lee", Email |-> "nomail",
      Password |-> <<"password1">>],
     [firstName |-> "Ann", lastName |-> "Lee", Email |-> "a@x.io",
      Password |-> <<"short">>],
     [firstName |-> "Ann", lastName |-> "Lee", Email |-> Absent,
      Password |-> <<"password1">>]}
\* updatedUserData: empty, a new email, a new password.
UserDataUpd ==
    {NoUserData,
     [NoUserData EXCEPT !.Email = "a@x.io"],
     [NoUserData EXCEPT !.Email = "b@x.io"],
     [NoUserData EXCEPT !.Password = <<"password2">>]}

StepUser(p) ==
    \/ \E d \in UserDataIn, ok \in BOOLEAN : SaveUser(p, d, ok)
    \/ \E u \in 0..nextUserID, ok \in BOOLEAN : FindUserByID(p, u, ok)
    \/ \E u \in 1..nextUserID, d \in UserDataUpd : UpdateUserFind(p, u, d)
    \/ \E ok \in BOOLEAN : UpdateUserRow(p, ok)
    \/ \E u \in 1..nextUserID : DeleteUserFind(p, u)
    \/ \E ok \in BOOLEAN : DeleteUserDestroy(p, ok)
    \/ \E e \in Emails, w \in Passwords, ok \in BOOLEAN : LoginFind(p, e, w, ok)
    \/ LoginCompare(p)
    \/ SerializeUser(p)
    \/ \E u \in 0..nextUserID, ok \in BOOLEAN : DeserializeUser(p, u, ok)
    \/ Respond(p)

NextUser == (\E p \in Procs : StepUser(p)) /\ UNCHANGED exchange

SpecUser == InitUser /\ [][NextUser]_vars

\* ------------------------------------------ CategoryService and TagService
\* The workspaces: rows of Workspaces, which no handler writes.
Workspaces == {1, 2}
CategoryNames == {"x", "y"}
TagNames == {"g"}
NoCatalogueData == [name |-> Absent, workspaceID |-> NoID]

\* The row Category.create(categoryData) or Tag.create(tagData) inserts.
CatalogueRow(data) == [name |-> data.name, workspaceID |-> data.workspaceID]

\* saveCategory, CategoryService.js lines 79-88.
SaveCategory(p, categoryData, ok) ==
    /\ CanBegin(p, 0)
    /\ work' = work + 1
    /\ LET c0 == [Begin("saveCategory", NoID) EXCEPT !.arg = categoryData]
       IN  IF categoryData.name # Absent /\ ok
           THEN /\ categories' = Put(categories, nextCategoryID, CatalogueRow(categoryData))
                /\ nextCategoryID' = nextCategoryID + 1
                /\ call' = [call EXCEPT ![p] =
                     [c0 EXCEPT !.id = nextCategoryID, !.found = TRUE, !.pc = "done",
                                !.result = success("Category"),
                                !.dto = {CatalogueRow(categoryData)}]]
           ELSE /\ UNCHANGED <<categories, nextCategoryID>>
                /\ call' = [call EXCEPT ![p] =
                     [c0 EXCEPT !.pc = "done",
                                !.result = error(IF categoryData.name = Absent
                                                 THEN ValidationError ELSE StoreError)]]
    /\ UNCHANGED <<store, ids, accounts, tags, taskTags, nextTagID>>

\* saveTag, TagService.js lines 79-87.
SaveTag(p, tagData, ok) ==
    /\ CanBegin(p, 0)
    /\ work' = work + 1
    /\ LET c0 == [Begin("saveTag", NoID) EXCEPT !.arg = tagData]
       IN  IF tagData.name # Absent /\ ok
           THEN /\ tags' = Put(tags, nextTagID, CatalogueRow(tagData))
                /\ nextTagID' = nextTagID + 1
                /\ call' = [call EXCEPT ![p] =
                     [c0 EXCEPT !.id = nextTagID, !.found = TRUE, !.pc = "done",
                                !.result = success("Tag"),
                                !.dto = {CatalogueRow(tagData)}]]
           ELSE /\ UNCHANGED <<tags, nextTagID>>
                /\ call' = [call EXCEPT ![p] =
                     [c0 EXCEPT !.pc = "done",
                                !.result = error(IF tagData.name = Absent
                                                 THEN ValidationError ELSE StoreError)]]
    /\ UNCHANGED <<store, ids, accounts, categories, taskTags, nextCategoryID>>

\* findCategoryByID, CategoryService.js lines 19-30, and findTagByID,
\* TagService.js lines 19-30.
FindCategoryByID(p, categoryID) ==
    /\ CanBegin(p, 0)
    /\ work' = work + 1
    /\ UNCHANGED <<store, ids, accounts, catalogue>>
    /\ LET c0 == Begin("findCategoryByID", categoryID)
       IN  call' = [call EXCEPT ![p] =
            IF categoryID \notin DOMAIN categories
            THEN [c0 EXCEPT !.pc = "done", !.result = error("Category not found")]
            ELSE [c0 EXCEPT !.pc = "done", !.found = TRUE,
                            !.result = success("Category"),
                            !.dto = {categories[categoryID]}]]

FindTagByID(p, tagID) ==
    /\ CanBegin(p, 0)
    /\ work' = work + 1
    /\ UNCHANGED <<store, ids, accounts, catalogue>>
    /\ LET c0 == Begin("findTagByID", tagID)
       IN  call' = [call EXCEPT ![p] =
            IF tagID \notin DOMAIN tags
            THEN [c0 EXCEPT !.pc = "done", !.result = error("Tag not found")]
            ELSE [c0 EXCEPT !.pc = "done", !.found = TRUE,
                            !.result = success("Tag"),
                            !.dto = {tags[tagID]}]]

\* ---------------------------------------------------------------- listings
\* A findAll handler: one query; the result is the array of the rows found
\* (here the set of their keys), empty when nothing matches.
Listing(p, op, name, workspaceID, rows) ==
    /\ CanBegin(p, 0)
    /\ work' = work + 1
    /\ UNCHANGED <<store, ids, accounts, catalogue>>
    /\ call' = [call EXCEPT ![p] =
         [Begin(op, NoID) EXCEPT
            !.arg = [name |-> name, workspaceID |-> workspaceID],
            !.pc = "done", !.result = success("List"), !.view = rows]]

\* findAllTasks, lines 422-458: where {workspaceID}.
FindAllTasks(p, workspaceID) ==
    Listing(p, "findAllTasks", Absent, workspaceID,
            {t \in DOMAIN tasks : tasks[t].workspaceID = workspaceID})

\* findTasksByTitle, lines 303-337: where {title, workspaceID}.
FindTasksByTitle(p, taskTitle, workspaceID) ==
    Listing(p, "findTasksByTitle", taskTitle, workspaceID,
            {t \in DOMAIN tasks : /\ tasks[t].title = taskTitle
                                  /\ tasks[t].workspaceID = workspaceID})

\* findTasksByTag, lines 345-375: no where on Task; the include of Tag has
\* where {name, workspaceID}, which makes it an inner join.
FindTasksByTag(p, tagName, workspaceID) ==
    Listing(p, "findTasksByTag", tagName, workspaceID,
            {t \in DOMAIN tasks :
                \E g \in TagsOf(t) : /\ tags[g].name = tagName
                                     /\ tags[g].workspaceID = workspaceID})

\* Variant: findTasksByCategory without the where on Task.
FindTasksByCategoryAnyWorkspace(p, categoryName, workspaceID) ==
    Listing(p, "findTasksByCategory", categoryName, workspaceID,
            {t \in DOMAIN tasks :
                \E k \in CategoryOf(t) : categories[k].name = categoryName})

\* findTasksByCategory, lines 383-415: where {workspaceID} on Task; the
\* include of Category has where {name} (inner join).
FindTasksByCategory(p, categoryName, workspaceID) ==
    Listing(p, "findTasksByCategory", categoryName, workspaceID,
            {t \in DOMAIN tasks :
                /\ tasks[t].workspaceID = workspaceID
                /\ \E k \in CategoryOf(t) : categories[k].name = categoryName})

\* The associations Database.js declares, as <<source, target>>: an include
\* of target in a query on source needs one.
Associations ==
    {<<"Category", "Task">>, <<"Task", "Category">>,
     <<"Task", "SubTask">>, <<"SubTask", "Task">>,
     <<"Task", "Tag">>, <<"Tag", "Task">>,
     <<"Task", "Notification">>, <<"Notification", "Task">>,
     <<"User", "Task">>, <<"Task", "User">>,
     <<"Workspace", "Task">>, <<"Task", "Workspace">>,
     <<"User", "Workspace">>, <<"Workspace", "User">>,
     <<"User", "Notification">>, <<"Notification", "User">>,
     <<"User", "Session">>, <<"Session", "User">>,
     <<"Workspace", "Session">>, <<"Session", "Workspace">>,
     <<"Session", "Notification">>, <<"Notification", "Session">>}

\* The message of the EagerLoadingError Sequelize throws for an include of
\* Workspace in a query on a model with no association to it.
EagerLoadingError(source) ==
    IF source = "Category" THEN "Workspace is not associated to Category!"
    ELSE "Workspace is not associated to Tag!"

\* A findAll handler whose query throws: the catch returns the error's
\* message.
Refused(p, op, workspaceID, message) ==
    /\ CanBegin(p, 0)
    /\ work' = work + 1
    /\ UNCHANGED <<store, ids, accounts, catalogue>>
    /\ call' = [call EXCEPT ![p] =
         [Begin(op, NoID) EXCEPT
            !.arg = [name |-> Absent, workspaceID |-> workspaceID],
            !.pc = "done", !.result = error(message)]]

\* findAllCategories, CategoryService.js lines 56-72: where {workspaceID}
\* and an include of Workspace.
FindAllCategories(p, workspaceID) ==
    IF <<"Category", "Workspace">> \in Associations
    THEN Listing(p, "findAllCategories", Absent, workspaceID,
                 {k \in DOMAIN categories : categories[k].workspaceID = workspaceID})
    ELSE Refused(p, "findAllCategories", workspaceID, EagerLoadingError("Category"))
\* findCategoryByName, CategoryService.js lines 38-49.
FindCategoryByName(p, categoryName, workspaceID) ==
    Listing(p, "findCategoryByName", categoryName, workspaceID,
            {k \in DOMAIN categories : /\ categories[k].name = categoryName
                                       /\ categories[k].workspaceID = workspaceID})

\* findAllTags, TagService.js lines 56-72: where {workspaceID} and an include
\* of Workspace.
FindAllTags(p, workspaceID) ==
    IF <<"Tag", "Workspace">> \in Associations
    THEN Listing(p, "findAllTags", Absent, workspaceID,
                 {g \in DOMAIN tags : tags[g].workspaceID = workspaceID})
    ELSE Refused(p, "findAllTags", workspaceID, EagerLoadingError("Tag"))
\* findTagByName, TagService.js lines 38-49.
FindTagByName(p, tagName, workspaceID) ==
    Listing(p, "findTagByName", tagName, workspaceID,
            {g \in DOMAIN tags : /\ tags[g].name = tagName
                                 /\ tags[g].workspaceID = workspaceID})

\* Rows kept from earlier runs: nothing, or workspace 1 with a category, a
\* tag and a task that references both and has a subtask and a notification,
\* and workspace 2 with a category of the same name.
InitList ==
    /\ call = [p \in Procs |-> IdleCall]
    /\ work = 0
    /\ exchange = NoExchange
    /\ NoAccounts
    /\ \/ /\ tasks = EmptyTable
          /\ subTasks = EmptyTable
          /\ notifs = EmptyTable
          /\ nextTaskID = 1
          /\ nextSubTaskID = 1
          /\ nextNotifID = 1
          /\ NoCatalogue
       \/ /\ tasks = (1 :> [SeedTask EXCEPT !.workspaceID = 1, !.categoryID = 1])
          /\ subTasks = (1 :> SeedSubTask)
          /\ notifs = (1 :> SeedNotif("Unread"))
          /\ nextTaskID = 2
          /\ nextSubTaskID = 2
          /\ nextNotifID = 2
          /\ categories = (1 :> [name |-> "x", workspaceID |-> 1])
                          @@ (2 :> [name |-> "x", workspaceID |-> 2])
          /\ tags = (1 :> [name |-> "g", workspaceID |-> 1])
          /\ taskTags = {<<1, 1>>}
          /\ nextCategoryID = 3
          /\ nextTagID = 2

\* Inputs of the catalogue handlers: a category or a tag of a workspace, and
\* one without the mandatory name.
CatalogueDataIn ==
    {[name |-> "x", workspaceID |-> w] : w \in Workspaces}
    \cup {[name |-> Absent, workspaceID |-> 1]}
TagDataIn == {[name |-> "g", workspaceID |-> 2], [name |-> Absent, workspaceID |-> 1]}
\* Tasks of a workspace, with or without a category that exists.
TaskDataList ==
    {[NoTaskData EXCEPT !.title = "b", !.workspaceID = w, !.categoryID = k] :
        w \in Workspaces, k \in {NoID} \cup DOMAIN categories}
\* Updates that move a task to a workspace or to a category.
TaskDataMove ==
    {[NoTaskData EXCEPT !.workspaceID = w] : w \in Workspaces}
    \cup {[NoTaskData EXCEPT !.categoryID = k] : k \in DOMAIN categories}

StepList(p) ==
    \/ \E d \in CatalogueDataIn, ok \in BOOLEAN : SaveCategory(p, d, ok)
    \/ \E d \in TagDataIn, ok \in BOOLEAN : SaveTag(p, d, ok)
    \/ \E k \in 1..nextCategoryID : FindCategoryByID(p, k)
    \/ \E g \in 1..nextTagID : FindTagByID(p, g)
    \/ \E d \in TaskDataList, ok \in BOOLEAN :
            SaveTaskCreate(p, d, 0, ok) /\ UNCHANGED <<accounts, catalogue>>
    \/ \E t \in 1..nextTaskID, d \in TaskDataMove :
            UpdateTaskFind(p, t, d, 0) /\ UNCHANGED <<accounts, catalogue>>
    \/ \E ok \in BOOLEAN : UpdateTaskRow(p, ok) /\ UNCHANGED <<accounts, catalogue>>
    \/ \E t \in 1..nextTaskID : FindTaskByID(p, t) /\ UNCHANGED <<accounts, catalogue>>
    \/ \E w \in Workspaces : FindAllTasks(p, w)
    \/ \E n \in Titles, w \in Workspaces : FindTasksByTitle(p, n, w)
    \/ \E n \in TagNames, w \in Workspaces : FindTasksByTag(p, n, w)
    \/ \E n \in CategoryNames, w \in Workspaces : FindTasksByCategory(p, n, w)
    \/ \E w \in Workspaces : FindAllCategories(p, w)
    \/ \E n \in CategoryNames, w \in Workspaces : FindCategoryByName(p, n, w)
    \/ \E w \in Workspaces : FindAllTags(p, w)
    \/ \E n \in TagNames, w \in Workspaces : FindTagByName(p, n, w)
    \/ Respond(p)

NextList == (\E p \in Procs : StepList(p)) /\ UNCHANGED exchange

SpecList == InitList /\ [][NextList]_vars

\* ------------------------------------------------------- routers and HTTP
\* The routes of each router, in the order they are registered.
categoryRouter ==
    <<Route("GET", <<"categories", ":categoryID">>, "getCategoryByID",
            "CategoryService.findCategoryByID", 200, 400, FALSE),
      Route("GET", <<"categories", "categoryName">>, "getCategoryByName",
            "CategoryService.findCategoryByName", 200, 400, FALSE),
      Route("GET", <<"categories">>, "getAllCategories",
            "CategoryService.findAllCategories", 200, 400, FALSE),
      Route("POST", <<"categories">>, "createCategory",
            "CategoryService.saveCategory", 201, 400, FALSE),
      Route("PUT", <<"categories", ":categoryID">>, "updateCategory",
            "CategoryService.updateCategory", 200, 400, FALSE),
      Route("DELETE", <<"categories", ":categoryID">>, "deleteCategory",
            "CategoryService.deleteCategory", 200, 400, FALSE)>>
notificationRouter ==
    <<Route("POST", <<"notification">>, "createNotification",
            "NotificationService.createNotification", 201, 400, FALSE),
      Route("GET", <<"notifications", ":userID">>, "getNotificationsForUser",
            "NotificationService.getNotificationsForUser", 200, 400, FALSE),
      Route("PUT", <<"notifications", ":notificationID", "read">>, "markAsRead",
            "NotificationService.markAsRead", 200, 400, FALSE),
      Route("DELETE", <<"notifications", ":notificationID">>, "deleteNotification",
            "NotificationService.deleteNotification", 200, 400, FALSE)>>
sessionRouter ==
    <<Route("GET", <<"sessions", ":sessionID">>, "getSessionByID",
            "SessionService.findSession", 200, 404, TRUE),
      Route("GET", <<"sessions">>, "getAllSessions",
            "SessionService.findAllSessions", 200, 404, TRUE),
      Route("POST", <<"session">>, "createSession",
            "SessionService.saveSession", 201, 400, TRUE),
      Route("PUT", <<"sessions", ":sessionID">>, "updateSession",
            "SessionService.updateSession", 200, 400, TRUE),
      Route("DELETE", <<"sessions", ":sessionID">>, "deleteSession",
            "SessionService.deleteSession", 200, 400, TRUE)>>
tagRouter ==
    <<Route("GET", <<"tags", ":tagID">>, "getTagByID",
            "TagService.findTagByID", 200, 400, FALSE),
      Route("GET", <<"tags", "tagName">>, "getTagByName",
            "TagService.findTagByName", 200, 400, FALSE),
      Route("GET", <<"tags">>, "getAllTags",
            "TagService.findAllTags", 200, 400, FALSE),
      Route("POST", <<"tag">>, "createTag",
            "TagService.saveTag", 201, 400, FALSE),
      Route("PUT", <<"tags", ":tagID">>, "updateTag",
            "TagService.updateTag", 200, 400, FALSE),
      Route("DELETE", <<"tags", ":tagID">>, "deleteTag",
            "TagService.deleteTag", 200, 400, FALSE)>>
taskRouter ==
    <<Route("GET", <<"tasks", ":taskID">>, "getTaskByID",
            "TaskService.findTask", 200, 400, FALSE),
      Route("GET", <<"tasks", "title">>, "getTasksByTitle",
            "TaskService.findTasksByTitle", 200, 400, FALSE),
      Route("GET", <<"tasks", "tag">>, "getTasksByTag",
            "TaskService.findTasksByTag", 200, 400, FALSE),
      Route("GET", <<"tasks", "category">>, "getTasksByCategory",
            "TaskService.findTasksByCategory", 200, 400, FALSE),
      Route("GET", <<"tasks">>, "getAllTasks",
            "TaskService.findAllTasks", 200, 400, FALSE),
      Route("POST", <<"task">>, "createTask",
            "TaskService.saveTask", 201, 400, FALSE),
      Route("PUT", <<"tasks", ":taskID">>, "updateTask",
            "TaskService.updateTask", 200, 400, FALSE),
      Route("DELETE", <<"tasks", ":taskID">>, "deleteTask",
            "TaskService.deleteTask", 200, 400, FALSE)>>
userRouter ==
    <<Route("GET", <<"users", ":userID">>, "getUserByID",
            "UserService.findUser", 200, 400, TRUE),
      Route("GET", <<"users", "category">>, "getUserByCategory",
            "UserService.findUsersByCategory", 200, 400, TRUE),
      Route("GET", <<"users", "tag">>, "getUserByTag",
            "UserService.findUsersByTag", 200, 400, TRUE),
      Route("GET", <<"users", "search">>, "searchUsersByName",
            "UserService.searchUsersByName", 200, 404, TRUE),
      Route("POST", <<"user">>, "createUser",
            "UserService.saveUser", 201, 400, TRUE),
      Route("PUT", <<"users", ":userID">>, "updateUser",
            "UserService.updateUser", 200, 400, TRUE),
      Route("DELETE", <<"users", ":userID">>, "deleteUser",
            "UserService.deleteUser", 200, 400, TRUE)>>

\* app.use(URLVersion, router), in this order; the paths of the model are
\* those below the version prefix.
Routes ==
    categoryRouter \o notificationRouter \o sessionRouter \o tagRouter
        \o taskRouter \o userRouter

\* The static methods the service classes define.
ServiceMethods ==
    {"TaskService.findTaskByID", "TaskService.findTasksByTitle",
     "TaskService.findTasksByTag", "TaskService.findTasksByCategory",
     "TaskService.findAllTasks", "TaskService.saveTask", "TaskService.updateTask",
     "TaskService.deleteTask",
     "SessionService.findSessionByID", "SessionService.findAllSessions",
     "SessionService.saveSession", "SessionService.updateSession",
     "SessionService.deleteSession",
     "UserService.findUserByID", "UserService.searchUsersByName",
     "UserService.saveUser", "UserService.updateUser", "UserService.deleteUser",
     "CategoryService.findCategoryByID", "CategoryService.findCategoryByName",
     "CategoryService.findAllCategories", "CategoryService.saveCategory",
     "CategoryService.updateCategory", "CategoryService.deleteCategory",
     "TagService.findTagByID", "TagService.findTagByName", "TagService.findAllTags",
     "TagService.saveTag", "TagService.updateTag", "TagService.deleteTag",
     "NotificationService.createNotification",
     "NotificationService.getNotificationsForUser",
     "NotificationService.markAsRead", "NotificationService.deleteNotification"}

\* Express matches a path against a route's pattern segment by segment: a
\* named parameter (":name") matches any segment, a literal only itself.
Matches(pattern, path) ==
    /\ Len(pattern) = Len(path)
    /\ \A i \in 1..Len(pattern) :
          \/ pattern[i] = path[i]
          \/ pattern[i] \in {":categoryID", ":userID", ":notificationID",
                             ":sessionID", ":tagID", ":taskID"}

\* The route a request is dispatched to: the first registered one whose
\* method and pattern match; with none, the 404 middleware of the app.
Dispatch(method, path) ==
    LET hits == {i \in 1..Len(Routes) :
                    Routes[i].method = method /\ Matches(Routes[i].pattern, path)}
    IN  IF hits = {}
        THEN Route(method, path, "notFound", "none", 404, 404, TRUE)
        ELSE Routes[CHOOSE i \in hits : \A j \in hits : i <= j]

\* request.params.<name> used as a primary key: the number the segment
\* spells; a segment that spells none is the key of no row.
ParamID(segment) ==
    IF segment = "1" THEN 1 ELSE IF segment = "2" THEN 2 ELSE NoID

\* The requests of the clients: by identifier, the filter paths, the
\* listings, creations and deletions, and a path no router knows.
Requests ==
    {<<"GET", <<e, x>>>> : e \in {"tasks", "users"},
                           x \in {"1", "title", "tag", "category", "search"}}
    \cup {<<"GET", <<"categories", x>>>> : x \in {"1", "categoryName"}}
    \cup {<<"GET", <<"tags", x>>>> : x \in {"1", "tagName"}}
    \cup {<<"GET", <<"sessions", "1">>>>, <<"GET", <<"tasks">>>>,
          <<"GET", <<"categories">>>>, <<"GET", <<"nothing">>>>,
          <<"POST", <<"task">>>>, <<"POST", <<"user">>>>,
          <<"DELETE", <<"tasks", "1">>>>, <<"DELETE", <<"users", "1">>>>}

\* A request arrives and the app routes it.
Receive(method, path) ==
    /\ exchange.pc \in {"idle", "finished"}
    /\ work < MaxWork
    /\ exchange' = [NoExchange EXCEPT !.pc = "routed", !.method = method,
                                      !.path = path,
                                      !.route = Dispatch(method, path)]
    /\ UNCHANGED <<store, ids, work, call, accounts, catalogue>>

\* `await Service.method(...)` of the handlers served here, with the
\* arguments they take from request.params, request.query and request.body.
ServiceCall(p, service, path) ==
    \/ /\ service = "TaskService.findAllTasks"
       /\ \E w \in Workspaces : FindAllTasks(p, w)
    \/ /\ service = "TaskService.saveTask"
       /\ \E d \in TaskDataList, ok \in BOOLEAN : SaveTaskCreate(p, d, 0, ok)
       /\ UNCHANGED <<accounts, catalogue>>
    \/ /\ service = "TaskService.deleteTask"
       /\ DeleteTaskFind(p, ParamID(path[2]))
       /\ UNCHANGED <<accounts, catalogue>>
    \/ /\ service = "CategoryService.findCategoryByID"
       /\ \/ FindCategoryByID(p, ParamID(path[2]))
          \/ /\ path[2] \notin {"1", "2"}
             /\ Refused(p, "findCategoryByID", NoID, StoreError)
    \/ /\ service = "CategoryService.findAllCategories"
       /\ \E w \in Workspaces : FindAllCategories(p, w)
    \/ /\ service = "TagService.findTagByID"
       /\ \/ FindTagByID(p, ParamID(path[2]))
          \/ /\ path[2] \notin {"1", "2"}
             /\ Refused(p, "findTagByID", NoID, StoreError)
    \/ /\ service = "UserService.saveUser"
       /\ \E d \in UserDataIn, ok \in BOOLEAN : SaveUser(p, d, ok)
    \/ /\ service = "UserService.deleteUser"
       /\ DeleteUserFind(p, ParamID(path[2]))

\* The routed handler runs up to its await.  A handler that calls a method
\* its service does not define throws a TypeError: inside try/catch the
\* catch answers 500; outside, the async handler's promise is rejected, which
\* Express 4 ignores (no response is ever sent) and Express 5 passes to the
\* app's error middleware.
Invoke(p) ==
    /\ exchange.pc = "routed"
    /\ LET r == exchange.route
       IN  IF r.handler = "notFound"
           THEN /\ exchange' = [exchange EXCEPT !.pc = "finished", !.sent = TRUE,
                                  !.status = 404,
                                  !.body = {error("Resource not found")}]
                /\ UNCHANGED <<store, ids, work, call, accounts, catalogue>>
           ELSE IF r.service \notin ServiceMethods
           THEN /\ UNCHANGED <<store, ids, work, call, accounts, catalogue>>
                /\ IF r.guarded
                   THEN exchange' = [exchange EXCEPT !.pc = "finished",
                                       !.sent = TRUE, !.status = 500,
                                       !.body = {error("is not a function")}]
                   ELSE \E express \in {4, 5} :
                          exchange' =
                            IF express = 4
                            THEN [exchange EXCEPT !.pc = "finished"]
                            ELSE [exchange EXCEPT !.pc = "finished",
                                    !.sent = TRUE, !.status = 500,
                                    !.body = {error("Internal Server Error")}]
           ELSE /\ exchange' = [exchange EXCEPT !.pc = "awaiting"]
                /\ ServiceCall(p, r.service, exchange.path)

\* response.status(result.status === "success" ? ok : fail).json(result)
Reply(p) ==
    /\ exchange.pc = "awaiting"
    /\ call[p].pc = "done"
    /\ exchange' = [exchange EXCEPT !.pc = "finished", !.sent = TRUE,
                      !.status = IF call[p].result.status = "success"
                                 THEN exchange.route.ok ELSE exchange.route.fail,
                      !.body = {call[p].result}]
    /\ call' = [call EXCEPT ![p] = IdleCall]
    /\ UNCHANGED <<store, ids, work, accounts, catalogue>>

NextHttp ==
    \/ \E q \in Requests : Receive(q[1], q[2])
    \/ \E p \in Procs : Invoke(p)
    \/ \E p \in Procs : \E s \in call[p].pending, ok \in BOOLEAN :
            DeleteTaskSubTask(p, s, ok) /\ UNCHANGED <<accounts, catalogue, exchange>>
    \/ \E p \in Procs, ok \in BOOLEAN, rule \in SubTaskOnDelete :
            DeleteTaskDestroy(p, ok, rule) /\ UNCHANGED <<accounts, catalogue, exchange>>
    \/ \E p \in Procs, ok \in BOOLEAN : DeleteUserDestroy(p, ok) /\ UNCHANGED exchange
    \/ \E p \in Procs : Reply(p)

SpecHttp == InitList /\ [][NextHttp]_vars

\* ---------------------------------------------------- concurrent requests
\* Two requests served at once: Node interleaves their handlers at every
\* await, and no handler of TaskService opens a transaction.
Clients == {1, 2}

\* The store of the concurrent runs: empty, or one task with two subtasks.
InitConc ==
    /\ call = [p \in Clients |-> IdleCall]
    /\ work = 0
    /\ exchange = NoExchange
    /\ NoAccounts
    /\ NoCatalogue
    /\ notifs = EmptyTable
    /\ nextNotifID = 1
    /\ \/ /\ tasks = EmptyTable
          /\ subTasks = EmptyTable
          /\ nextTaskID = 1
          /\ nextSubTaskID = 1
       \/ /\ tasks = (1 :> SeedTask)
          /\ subTasks = (1 :> SeedSubTask) @@ (2 :> SeedSubTask)
          /\ nextTaskID = 2
          /\ nextSubTaskID = 3

\* The steps of one of the two handlers: saveTask with two subtasks,
\* updateTask adding one, deleteTask and findTaskByID, the store accepting
\* every write of a subtask.
StepConc(p) ==
    \/ \E t \in KnownTasks : DeleteTaskFind(p, t)
    \/ \E s \in call[p].pending : DeleteTaskSubTask(p, s, TRUE)
    \/ \E ok \in BOOLEAN, rule \in SubTaskOnDelete : DeleteTaskDestroy(p, ok, rule)
    \/ SaveTaskCreate(p, [NoTaskData EXCEPT !.title = "a"], 2, TRUE)
    \/ SaveTaskSubTask(p, [NoEntry EXCEPT !.title = "a"], TRUE)
    \/ \E t \in KnownTasks : UpdateTaskFind(p, t, NoTaskData, 1)
    \/ UpdateTaskRow(p, TRUE)
    \/ UpdateTaskSubTask(p, [NoEntry EXCEPT !.title = "a"], TRUE)
    \/ \E t \in KnownTasks : FindTaskByID(p, t)
    \/ Respond(p)

NextConc ==
    (\E p \in Clients : StepConc(p)) /\ UNCHANGED <<accounts, catalogue, exchange>>

SpecConc == InitConc /\ [][NextConc]_vars

\* ------------------------------------------------------------------ claims
\* The subtasks task c.id had when handler c started.
PreSubTasksOf(c) == {s \in DOMAIN c.pre.subTasks : c.pre.subTasks[s].taskID = c.id}
PreNotifsOf(c) == {n \in DOMAIN c.pre.notifs : c.pre.notifs[n].taskID = c.id}

\* C1: deleteTask loads all N subtasks of the task and destroys every one of
\* them before the task row: the task is never gone while a loaded subtask
\* still exists, and after success neither the task nor any of the N subtasks
\* can be found.
C1_DeleteCascade ==
    \A p \in Procs :
        LET c == call[p]
        IN  c.op = "deleteTask" /\ c.found =>
              /\ c.loaded = PreSubTasksOf(c)
              /\ c.id \notin DOMAIN tasks => c.loaded \cap DOMAIN subTasks = {}
              /\ c.result.status = "success" =>
                    /\ c.id \notin DOMAIN tasks
                    /\ c.loaded \cap DOMAIN subTasks = {}

C1_Witness ==
    \E p \in Procs :
        /\ call[p].op = "deleteTask"
        /\ call[p].result.status = "success"
        /\ Cardinality(call[p].loaded) >= 2

\* C2: saveTask creates the Task row before any SubTask row; on success there
\* is exactly one new SubTask per entry of subTasksData, each with the new
\* task's identifier; when the Task creation fails no SubTask is created.
C2_SaveTaskOrder ==
    \A p \in Procs :
        LET c == call[p]
        IN  c.op = "saveTask" =>
              /\ c.newTask = NoID =>
                    /\ c.created = {}
                    /\ subTasks = c.pre.subTasks
                    /\ tasks = c.pre.tasks
              /\ c.newTask # NoID => c.newTask \in DOMAIN tasks \ DOMAIN c.pre.tasks
              /\ c.result.status = "success" =>
                    /\ c.newTask \in DOMAIN tasks
                    /\ Cardinality(c.created) = c.n
                    /\ DOMAIN subTasks \ DOMAIN c.pre.subTasks = c.created
                    /\ \A s \in c.created : subTasks[s].taskID = c.newTask

C2_Witness ==
    \E p \in Procs :
        /\ call[p].op = "saveTask"
        /\ call[p].result.status = "success"
        /\ call[p].n = 2
        /\ \E s \in call[p].created : call[p].last.taskID \notin {NoID, call[p].newTask}

\* C3: once the Task row is created and the creation of a subtask has failed,
\* saveTask's result is an error, and the Task row and every subtask created
\* successfully are still in the store.
C3_NoRollback ==
    \A p \in Procs :
        LET c == call[p]
        IN  /\ c.op = "saveTask"
            /\ c.newTask # NoID
            /\ (c.n - c.left) > Cardinality(c.created)
            => /\ c.result.status = "error"
               /\ c.newTask \in DOMAIN tasks
               /\ tasks[c.newTask].title = c.taskData.title
               /\ c.created \subseteq DOMAIN subTasks
               /\ \A s \in c.created : subTasks[s].taskID = c.newTask

C3_Witness ==
    \E p \in Procs :
        /\ call[p].op = "saveTask"
        /\ call[p].pc = "done"
        /\ call[p].result.status = "error"
        /\ call[p].newTask # NoID
        /\ call[p].created # {}

\* C4: while updateTask on an existing task has met no error, and so when it
\* returns success: the task carries the supplied fields (the others are
\* kept); the entry with a subTaskID that settled last has written its title
\* and status to that subtask; entries with a subTaskID add no row; and every
\* entry without one has added exactly one SubTask, whose taskID is taskID.
C4_UpdateTask ==
    \A p \in Procs :
        LET c == call[p]
            d == c.taskData
        IN  /\ c.op = "updateTask"
            /\ c.found
            /\ c.pc \in {"upd_subs", "done"}
            /\ c.result.status # "error"
            => /\ c.id \in DOMAIN tasks
               /\ tasks[c.id].title = IF d.title # Absent THEN d.title
                                      ELSE c.pre.tasks[c.id].title
               /\ tasks[c.id].status = IF d.status # Absent THEN d.status
                                       ELSE c.pre.tasks[c.id].status
               /\ c.last.subTaskID \in DOMAIN subTasks =>
                    /\ c.last.title # Absent =>
                          subTasks[c.last.subTaskID].title = c.last.title
                    /\ c.last.status # Absent =>
                          subTasks[c.last.subTaskID].status = c.last.status
               /\ DOMAIN subTasks \ DOMAIN c.pre.subTasks = c.created
               /\ DOMAIN c.pre.subTasks \subseteq DOMAIN subTasks
               /\ Cardinality(c.created) = c.nNew
               /\ \A s \in c.created : subTasks[s].taskID = c.id

C4_Witness ==
    \E p \in Procs :
        /\ call[p].op = "updateTask"
        /\ call[p].pc = "done"
        /\ call[p].result.status = "success"
        /\ call[p].nNew = 1
        /\ call[p].last.status = "Completed"
        /\ call[p].last.subTaskID \in PreSubTasksOf(call[p])
        /\ PreSubTasksOf(call[p]) \ call[p].named # {}

\* C5: updateTask leaves every subtask of the task that no entry names
\* unchanged and undeleted, and the task's subtasks after a successful call
\* are those before the call plus the subtasks created for the entries
\* without a subTaskID.
C5_UpdateFrame ==
    \A p \in Procs :
        LET c == call[p]
        IN  c.op = "updateTask" /\ c.found /\ c.pc = "done" =>
              /\ \A s \in PreSubTasksOf(c) \ c.named :
                    s \in DOMAIN subTasks /\ subTasks[s] = c.pre.subTasks[s]
              /\ c.result.status = "success" =>
                    SubTasksOf(c.id) = PreSubTasksOf(c) \cup c.created

\* C6: deleteTask of an identifier no task has returns the error "Task not
\* found" and leaves the store as it was; deleteTask of a task without
\* subtasks returns success with the task removed, unless the store itself
\* refuses the DELETE.
C6_DeleteNotFound ==
    \A p \in Procs :
        LET c == call[p]
        IN  c.op = "deleteTask" /\ c.pc = "done" =>
              /\ c.id \notin DOMAIN c.pre.tasks =>
                    /\ c.result = error("Task not found")
                    /\ Snapshot = c.pre
              /\ c.id \in DOMAIN c.pre.tasks /\ PreSubTasksOf(c) = {} =>
                    \/ c.result = success("Task") /\ c.id \notin DOMAIN tasks
                    \/ c.result = error(StoreError) /\ Snapshot = c.pre

C6_Witness ==
    \E p \in Procs :
        /\ call[p].op = "deleteTask"
        /\ call[p].pc = "done"
        /\ call[p].id \in DOMAIN call[p].pre.tasks
        /\ PreSubTasksOf(call[p]) = {}
        /\ call[p].result = success("Task")

\* C7: after deleteTask returns success no notification refers to the task:
\* the notifications that referred to it are gone from the store.
C7_NotificationsCascade ==
    \A p \in Procs :
        LET c == call[p]
        IN  c.op = "deleteTask" /\ c.result.status = "success" =>
              /\ NotifsOf(c.id) = {}
              /\ PreNotifsOf(c) \cap DOMAIN notifs = {}

C7_Witness ==
    \E p \in Procs :
        /\ call[p].op = "deleteTask"
        /\ call[p].result.status = "success"
        /\ PreNotifsOf(call[p]) # {}

\* C8: the notification a successful createNotification has inserted has
\* readStatus Unread, whatever the request body holds.
C8_CreatedUnread ==
    \A p \in Procs :
        LET c == call[p]
        IN  c.op = "createNotification" /\ c.result.status = "success" =>
              /\ c.id \in DOMAIN notifs \ DOMAIN c.pre.notifs
              /\ notifs[c.id].readStatus = "Unread"

C8_Witness ==
    \E p \in Procs :
        /\ call[p].op = "createNotification"
        /\ call[p].result.status = "success"
        /\ call[p].body.readStatus = "Read"

\* C9: markAsRead on an existing notification that is already Read returns
\* success and leaves the store as it was; every successful markAsRead ends
\* with the notification Read and nothing else changed, so a second call
\* ends in the state of the first.
C9_MarkAsReadIdempotent ==
    \A p \in Procs :
        LET c == call[p]
        IN  c.op = "markAsRead" /\ c.pc = "done" /\ c.found =>
              /\ c.result.status = "success" =>
                    notifs = [c.pre.notifs EXCEPT ![c.id].readStatus = "Read"]
              /\ c.pre.notifs[c.id].readStatus = "Read" =>
                    /\ c.result.status = "success"
                    /\ notifs = c.pre.notifs

C9_Witness ==
    \E p \in Procs :
        /\ call[p].op = "markAsRead"
        /\ call[p].pc = "done"
        /\ call[p].found
        /\ call[p].pre.notifs[call[p].id].readStatus = "Read"
        /\ call[p].result.status = "success"

\* C10: no step of any handler takes a notification from Read back to
\* Unread: a notification that is Read and still stored after the step is
\* Read after it.
C10_ReadIsTerminal ==
    [][\A n \in DOMAIN notifs \cap DOMAIN notifs' :
          notifs[n].readStatus = "Read" => notifs'[n].readStatus = "Read"]_vars

C10_Witness ==
    \E p \in Procs :
        /\ call[p].op \in {"saveTask", "updateTask", "deleteNotification",
                           "createNotification"}
        /\ call[p].pc = "done"
        /\ call[p].result.status = "success"
        /\ \E n \in DOMAIN notifs \cap DOMAIN call[p].pre.notifs :
              call[p].pre.notifs[n].readStatus = "Read" /\ notifs[n].readStatus = "Read"

\* The users that had email e when handler c started.
PreUsersWithEmail(c, e) == {u \in DOMAIN c.pre.users : c.pre.users[u].Email = e}

\* C11: no two stored users have the same email, and a saveUser whose email
\* is that of a stored user returns an error and stores no user.
C11_EmailUnique ==
    /\ \A u, v \in DOMAIN users : users[u].Email = users[v].Email => u = v
    /\ \A p \in Procs :
        LET c == call[p]
        IN  c.op = "saveUser" /\ PreUsersWithEmail(c, c.userData.Email) # {} =>
              /\ c.result.status = "error"
              /\ users = c.pre.users

C11_Witness ==
    \E p \in Procs :
        /\ call[p].op = "saveUser"
        /\ call[p].pc = "done"
        /\ PreUsersWithEmail(call[p], call[p].userData.Email) # {}
        /\ call[p].userData.Password = <<"password1">>
        /\ call[p].result = error("Validation error")

C13_PasswordHashed ==
    \A p \in Procs :
        LET c == call[p]
        IN  /\ c.op \in {"saveUser", "updateUser"}
            /\ c.pc = "done"
            /\ c.result.status = "success"
            /\ c.userData.Password # NoPassword
            => /\ c.id \in DOMAIN users
               /\ users[c.id].Password = Hash(c.userData.Password)
               /\ users[c.id].Password # c.userData.Password

\* C14: a credential check with the email and the password a stored user was
\* created with by saveUser, and that met no store error, returns that user.
C14_CanAuthenticate ==
    \A p \in Procs :
        LET c == call[p]
        IN  c.op = "login" /\ c.auth.called /\ c.auth.err = "none" =>
              \A u \in DOMAIN signup :
                    /\ signup[u].Email = c.cred.email
                    /\ signup[u].Password = c.cred.password
                    => c.auth = doneWith(u)

\* C15: for the user a successful credential check returned, serializeUser
\* yields that user's identifier; and deserializeUser of the identifier of a
\* stored user yields that user's record.
C15_SessionRoundTrip ==
    \A p \in Procs :
        LET c == call[p]
        IN  /\ c.op = "login" /\ c.pc = "done" /\ c.auth.user # NoID =>
                  c.sid = c.auth.user
            /\ c.op = "deserializeUser" /\ c.pc = "done" /\ c.auth.err = "none"
               /\ c.id \in DOMAIN c.pre.users =>
                  /\ c.auth = doneWith(c.id)
                  /\ c.dto = {Instance(c.id, c.pre.users[c.id])}

\* C16: when no user has the identifier, deserializeUser calls back with an
\* error: it never calls back with neither an error nor a user.
C16_DeserializeReportsError ==
    \A p \in Procs :
        LET c == call[p]
        IN  c.op = "deserializeUser" /\ c.pc = "done" /\ c.id \notin DOMAIN c.pre.users =>
              c.auth.err # "none"

TaskListings == {"findAllTasks", "findTasksByTitle", "findTasksByTag", "findTasksByCategory"}
CategoryListings == {"findAllCategories", "findCategoryByName"}
TagListings == {"findAllTags", "findTagByName"}

\* C17: every entity a listing of tasks, categories or tags called with
\* workspaceID W returns has workspaceID W.
C17_WorkspaceIsolation ==
    \A p \in Procs :
        LET c == call[p]
            W == c.arg.workspaceID
        IN  c.pc = "done" /\ c.result.status = "success" =>
              /\ c.op \in TaskListings => \A t \in c.view : tasks[t].workspaceID = W
              /\ c.op \in CategoryListings =>
                    \A k \in c.view : categories[k].workspaceID = W
              /\ c.op \in TagListings => \A g \in c.view : tags[g].workspaceID = W

\* C18: findTasksByCategory(categoryName, workspaceID) returns exactly the
\* tasks of that workspace whose category has that name.
C18_TasksByCategory ==
    \A p \in Procs :
        LET c == call[p]
        IN  c.op = "findTasksByCategory" /\ c.pc = "done" =>
              /\ c.result.status = "success"
              /\ c.view = {t \in DOMAIN tasks :
                            /\ tasks[t].workspaceID = c.arg.workspaceID
                            /\ tasks[t].categoryID \in DOMAIN categories
                            /\ categories[tasks[t].categoryID].name = c.arg.name}

C18_Witness ==
    \E p \in Procs :
        /\ call[p].op = "findTasksByCategory"
        /\ call[p].pc = "done"
        /\ Cardinality(call[p].view) = 1
        /\ \E t \in DOMAIN tasks \ call[p].view :
              /\ tasks[t].workspaceID # call[p].arg.workspaceID
              /\ \E k \in CategoryOf(t) : categories[k].name = call[p].arg.name

\* C19 (for User): the identifier a successful saveUser returns is that of
\* the stored user, and findUserByID on a user still as saveUser created it
\* returns an entity whose firstName, lastName and Email are those of the
\* userData.
C19_RoundTrip ==
    \A p \in Procs :
        LET c == call[p]
        IN  /\ c.op = "saveUser" /\ c.pc = "done" /\ c.result.status = "success" =>
                  \A e \in c.dto : e.userId = c.id
            /\ c.op = "findUserByID" /\ c.pc = "done" /\ c.result.status = "success"
               /\ c.id \in DOMAIN signup =>
                  \A e \in c.dto :
                      /\ Prop(e, "firstName") = signup[c.id].firstName
                      /\ Prop(e, "lastName") = signup[c.id].lastName
                      /\ Prop(e, "Email") = signup[c.id].Email

\* C20: findTaskByID returns the error 'Task not found' when no task has the
\* identifier; for an existing task it returns success with the task, all
\* its subtasks, notifications and tags and its category, the collections
\* being empty when the task has none.
C20_FindTaskByID ==
    \A p \in Procs :
        LET c == call[p]
        IN  c.op = "findTaskByID" /\ c.pc = "done" =>
              IF c.id \notin DOMAIN tasks
              THEN c.result = error("Task not found") /\ c.detail = NoDetail
              ELSE /\ c.result.status = "success"
                   /\ c.detail.task = {tasks[c.id]}
                   /\ c.detail.SubTasks =
                        {[subTaskID |-> s, title |-> subTasks[s].title,
                          status |-> subTasks[s].status] :
                            s \in {x \in DOMAIN subTasks : subTasks[x].taskID = c.id}}
                   /\ c.detail.Notifications =
                        {n \in DOMAIN notifs : notifs[n].taskID = c.id}
                   /\ c.detail.Tags =
                        {[tagID |-> g, name |-> tags[g].name] :
                            g \in {x \in DOMAIN tags : <<c.id, x>> \in taskTags}}
                   /\ c.detail.Category =
                        {[categoryID |-> k, name |-> categories[k].name] :
                            k \in {tasks[c.id].categoryID} \cap DOMAIN categories}

C20_Witness ==
    \E p \in Procs :
        /\ call[p].op = "findTaskByID"
        /\ call[p].pc = "done"
        /\ call[p].result.status = "success"
        /\ call[p].detail.SubTasks = {}
        /\ call[p].detail.Notifications = {}
        /\ call[p].detail.Tags = {}
        /\ \E t \in DOMAIN tasks : TagsOf(t) # {} /\ SubTasksOf(t) # {}

\* C24: no response of a user operation carries the plaintext password: the
\* view projection (findUserByID, saveUser) has no password property, and the
\* edit projection updateUser returns carries a bcrypt hash, never the
\* password the caller supplied.
C24_NoPlaintextPassword ==
    \A p \in Procs :
        LET c == call[p]
        IN  c.pc = "done" /\ c.result.status = "success" =>
              /\ c.op \in {"findUserByID", "saveUser"} =>
                    \A e \in c.dto : "password" \notin DOMAIN e
              /\ c.op = "updateUser" =>
                    \A e \in c.dto :
                        /\ e.password # NoPassword
                        /\ e.password[1] = BcryptMarker
                        /\ e.password # c.userData.Password

\* C29: updateTask(taskID, ...) changes subtasks of task taskID only: a
\* subtask that belonged to another task when the call started is unchanged
\* after it, and no subtask of taskID has left the task.
C29_UpdateScoped ==
    \A p \in Procs :
        LET c == call[p]
        IN  c.op = "updateTask" /\ c.found /\ c.pc = "done" =>
              \A s \in DOMAIN c.pre.subTasks :
                  /\ s \in DOMAIN subTasks
                  /\ c.pre.subTasks[s].taskID # c.id =>
                        subTasks[s] = c.pre.subTasks[s]
                  /\ c.pre.subTasks[s].taskID = c.id =>
                        subTasks[s].taskID = c.id

\* C30: the view of a stored user has the user's userID as userId and the
\* user's firstName and lastName, in this order, as the two parts of
\* fullName.
C30_UserViewFields ==
    \A p \in Procs :
        LET c == call[p]
        IN  /\ c.op \in {"findUserByID", "saveUser"}
            /\ c.pc = "done"
            /\ c.result.status = "success"
            /\ c.id \in DOMAIN users
            => \A e \in c.dto :
                  /\ e.userId = c.id
                  /\ e.fullName = <<users[c.id].firstName, users[c.id].lastName>>

\* C26: findAllCategories(W) and findAllTags(W) return success with exactly
\* the categories, respectively the tags, whose workspaceID is W (the empty
\* list when there is none).
C26_ListByWorkspace ==
    \A p \in Procs :
        LET c == call[p]
            W == c.arg.workspaceID
        IN  c.pc = "done" =>
              /\ c.op = "findAllCategories" =>
                    /\ c.result.status = "success"
                    /\ c.view = {k \in DOMAIN categories : categories[k].workspaceID = W}
              /\ c.op = "findAllTags" =>
                    /\ c.result.status = "success"
                    /\ c.view = {g \in DOMAIN tags : tags[g].workspaceID = W}

\* C22: the result of a service operation that succeeded has status
\* 'success' and its payload under the key data; the result of one that
\* failed has status 'error' and its text under the key message.
C22_ResultKeys ==
    \A p \in Procs :
        LET c == call[p]
        IN  c.pc = "done" /\ c.result # NoResult =>
              /\ c.result.status \in {"success", "error"}
              /\ c.result.status = "success" => "data" \in DOMAIN c.result
              /\ c.result.status = "error" => "message" \in DOMAIN c.result

\* C23: the error result of an operation that failed because of the store
\* does not carry the message of the store's own error.
C23_NoStoreMessage ==
    \A p \in Procs :
        LET c == call[p]
        IN  c.pc = "done" /\ c.result.status = "error" =>
              c.result.message \notin
                  {StoreError, ValidationError, ForeignKeyError, UniqueError,
                   InvalidError}

\* C21: every request served by a controller handler gets a JSON response:
\* once the handler is over, a response has been sent, with 200 (201 for a
\* creation) and a success body, or with 400, 404 or 500 and an error body,
\* also when the failure was raised inside the handler.
C21_AlwaysResponds ==
    exchange.pc = "finished" /\ exchange.route.handler # "notFound" =>
        /\ exchange.sent
        /\ \E b \in exchange.body :
              \/ /\ b.status = "success"
                 /\ exchange.status = (IF exchange.method = "POST" THEN 201 ELSE 200)
              \/ /\ b.status = "error"
                 /\ exchange.status \in {400, 404, 500}

\* C25: a GET of a filter path is dispatched to the handler registered for
\* that path, and not to the by-identifier handler of the same router.
C25_FilterRoutes ==
    /\ exchange.pc # "idle"
    /\ exchange.method = "GET"
    /\ exchange.path \in
          {<<"tasks", "title">>, <<"tasks", "tag">>, <<"tasks", "category">>,
           <<"tags", "tagName">>, <<"categories", "categoryName">>,
           <<"users", "search">>, <<"users", "category">>, <<"users", "tag">>}
    => /\ exchange.route.pattern = exchange.path
       /\ exchange.route.handler \notin
             {"getTaskByID", "getTagByID", "getCategoryByID", "getUserByID"}

\* C27: a findTaskByID that runs while a saveTask or a deleteTask of the same
\* task is in progress observes no task, or the task with all the subtasks of
\* that call: all those saveTask was given, all those deleteTask loaded.
C27_FindAtomic ==
    [][\A p \in DOMAIN call, q \in DOMAIN call :
          LET f    == call'[p]
              w    == call[q]
              seen == {v.subTaskID : v \in f.detail.SubTasks}
          IN  /\ p # q
              /\ call[p].pc = "idle"
              /\ f.op = "findTaskByID"
              /\ f.result.status = "success"
              => /\ w.op = "saveTask" /\ w.pc = "save_subs" /\ w.newTask = f.id =>
                       Cardinality(seen) = w.n
                 /\ w.op = "deleteTask" /\ w.pc \in {"del_subs", "del_task"}
                       /\ w.id = f.id =>
                       w.loaded \subseteq seen]_vars

====
